---- MODULE Spec2Model ----
\* A model of peek's front end: the path-template matcher and the completer
\* (src/peek/completer.py), the mode-stack lexers (src/peek/lexers.py), and the
\* connection list behind the native functions (src/tests/test_natives.py), and
\* the key bindings of the prompt (src/peek/key_bindings.py).
\* Text is a sequence of one-character strings; offsets are 0-based as in
\* the source, so the character at offset k is text[k + 1].
EXTENDS Integers, Sequences, FiniteSets, TLC

VARIABLES
    mode,       \* the entry point running: "match", "comp", "lex", "natives", "keys";
                \* "pipe" is the lexer run by get_completions, which goes on as "comp"
    \* ---- can_match(ts, ps)
    ts, ps,     \* the two segment lists
    cm_pc,      \* "call" before the call, "done" after it
    cm_ret,     \* the value returned
    \* ---- PeekCompleter.get_completions and the methods it dispatches to
    tokens,     \* process_tokens(lexer.get_tokens_unprocessed(text)), text = document.text[:cursor]
    trail,      \* the text between the end of the last token and the cursor
    specs,      \* self.specs, the loaded REST API spec mapping
    pc,         \* the method about to run: "get_completions", "_complete_options", ..., "done"
    args,       \* the arguments of the method about to run; before construction,
                \* the spec directory load_rest_api_spec will find
    result,     \* what get_completions returned
    via,        \* the methods that ran, in call order
    \* ---- RegexLexer.get_tokens_unprocessed over PeekLexer / PayloadLexer
    text,       \* the input string
    pos,        \* PeekLexer's scan offset
    stack,      \* PeekLexer's statestack
    ipos,       \* PayloadLexer's scan offset inside the region handed to it
    istack,     \* PayloadLexer's statestack
    ibase,      \* offset of that region in the input (match.start())
    lx,         \* "outer": PeekLexer scanning, "inner": PayloadLexer scanning, "done"
    out,        \* the tokens yielded so far
    step,       \* the last step taken: lexer, state it ran in, offsets before and after
    \* ---- the connection manager behind the native functions connect / connection / session
    clients,        \* the connections, in list order: [id, name]
    index_current,  \* 0-based index of the current connection
    saved_session,  \* what "session save" stored, <<>> before the first save
    native_ret,     \* what the last native function returned
    native_last,    \* the last native call: its name, argument, the list and index before
                    \* it, and whether it handed an error to display.error
    native_ops,     \* native calls made so far
    \* ---- the prompt the key bindings of key_bindings(repl) act on
    buffer,         \* event.current_buffer.text, the cursor at its end
    completion_selected,    \* the filter completion_is_selected
    searching,      \* the filter is_searching
    is_pretty,      \* repl.is_pretty
    exiting,        \* repl.signal_exit() was called
    linesep,        \* os.linesep of the platform
    key_log         \* the key presses so far: the key, the call its handler made on
                    \* the buffer ("none" when no binding of key_bindings ran), the
                    \* text and is_pretty before and after it

matchVars == <<ts, ps, cm_pc, cm_ret>>
compVars == <<tokens, trail, specs, pc, args, result, via>>
lexVars == <<text, pos, stack, ipos, istack, ibase, lx, out, step>>
connVars == <<clients, index_current, saved_session, native_ret, native_last, native_ops>>
keyVars == <<buffer, completion_selected, searching, is_pretty, exiting, linesep, key_log>>
vars == <<mode, ts, ps, cm_pc, cm_ret, tokens, trail, specs, pc, args, result, via,
          text, pos, stack, ipos, istack, ibase, lx, out, step,
          clients, index_current, saved_session, native_ret, native_last, native_ops,
          buffer, completion_selected, searching, is_pretty, exiting, linesep, key_log>>

\* ------------------------------------------------------------------ bounds
MaxSegs == 2        \* segments per list given to can_match
MaxTail == 3        \* characters of lexer input after the fixed statement head
MaxLive == 3        \* the same, for the inputs termination is checked on
MaxTokens == 3      \* tokens before the cursor given to the completer
MaxPath == 4        \* characters of the URL path typed after an HTTP method
MaxTyped == 3       \* characters typed after the fixed start of a completed text

\* ------------------------------------------------------------- sequences
Min(a, b) == IF a < b THEN a ELSE b

SeqsUpTo(S, n) == UNION {[1..k -> S] : k \in 0..n}

RECURSIVE SetToSeq(_)
SetToSeq(S) == IF S = {} THEN <<>>
               ELSE LET x == CHOOSE y \in S : TRUE IN <<x>> \o SetToSeq(S \ {x})

Last(s) == s[Len(s)]

\* idle values of the variables an entry point does not use
MatchIdle == ts = <<>> /\ ps = <<>> /\ cm_pc = "idle" /\ cm_ret = FALSE
CompIdle == /\ tokens = <<>> /\ trail = <<>> /\ specs = <<>> /\ pc = "idle"
            /\ args = <<>> /\ result = <<>> /\ via = <<>>
LexIdle == /\ text = <<>> /\ pos = 0 /\ stack = <<>> /\ ipos = 0 /\ istack = <<>>
           /\ ibase = 0 /\ lx = "idle" /\ out = <<>> /\ step = <<>>
ConnIdle == /\ clients = <<>> /\ index_current = 0 /\ saved_session = <<>>
            /\ native_ret = <<>> /\ native_last = <<>> /\ native_ops = 0
KeysIdle == /\ buffer = <<>> /\ completion_selected = FALSE /\ searching = FALSE
            /\ is_pretty = FALSE /\ exiting = FALSE /\ linesep = <<>>
            /\ key_log = <<>>

\* ------------------------------------------------------------- can_match
\* str.startswith / str.endswith for a one-character argument
startswith(s, c) == Len(s) > 0 /\ s[1] = c
endswith(s, c) == Len(s) > 0 /\ s[Len(s)] = c

\* can_match with the reserved-action test left out
RECURSIVE can_match_no_reserved(_, _)
can_match_no_reserved(T, P) ==
    IF T = <<>> \/ P = <<>> THEN TRUE
    ELSE IF Head(T) # Head(P) /\ ~(startswith(Head(P), "{") /\ endswith(Head(P), "}"))
    THEN FALSE
    ELSE can_match_no_reserved(Tail(T), Tail(P))

\* for t, p in zip(ts, ps): the first mismatching pair that is a reserved
\* action or faces no placeholder returns False; exhausting zip returns True
RECURSIVE can_match(_, _)
can_match(T, P) ==
    IF T = <<>> \/ P = <<>> THEN TRUE
    ELSE IF Head(T) # Head(P) /\ startswith(Head(T), "_") THEN FALSE
    ELSE IF Head(T) # Head(P) /\ ~(startswith(Head(P), "{") /\ endswith(Head(P), "}"))
    THEN FALSE
    ELSE can_match(Tail(T), Tail(P))

\* path segments the matcher is tried on: literals, reserved actions,
\* placeholders, and near-placeholders
MatchSegs == { <<"a">>, <<"b">>, <<"_", "s">>, <<"{", "i", "}">>, <<"{">>, <<"_", "}">> }

InitMatch ==
    /\ mode = "match"
    /\ ts \in SeqsUpTo(MatchSegs, MaxSegs)
    /\ ps \in SeqsUpTo(MatchSegs, MaxSegs)
    /\ cm_pc = "call" /\ cm_ret = FALSE
    /\ CompIdle /\ LexIdle /\ ConnIdle /\ KeysIdle

CanMatchCall ==
    /\ mode = "match" /\ cm_pc = "call"
    /\ cm_ret' = can_match(ts, ps)
    /\ cm_pc' = "done"
    /\ UNCHANGED <<mode, ts, ps>>
    /\ UNCHANGED compVars /\ UNCHANGED lexVars /\ UNCHANGED connVars /\ UNCHANGED keyVars

NextMatch == CanMatchCall

SpecMatch == InitMatch /\ [][NextMatch]_vars

\* C1: can_match(T, P) is true exactly when every index below min(len(T), len(P))
\* holds equal segments, or a typed segment not starting with '_' facing a
\* segment that starts with '{' and ends with '}'; nothing beyond the shorter
\* list is examined.
C1_CanMatchIff ==
    cm_pc = "done" =>
        (cm_ret <=> \A i \in 1..Min(Len(ts), Len(ps)) :
                        \/ ts[i] = ps[i]
                        \/ (ts[i][1] # "_" /\ ps[i][1] = "{" /\ ps[i][Len(ps[i])] = "}"))

C1_Witness ==
    /\ cm_pc = "done" /\ cm_ret
    /\ Len(ts) > Len(ps) /\ Len(ps) > 0
    /\ \E i \in 1..Len(ps) : ts[i] # ps[i]
    /\ ts[Len(ts)][1] = "_"

\* =================================================================== lexers
\* ------------------------------------------------------- character classes
Lower == <<"a","b","c","d","e","f","g","h","i","j","k","l","m",
           "n","o","p","q","r","s","t","u","v","w","x","y","z">>
Upper == <<"A","B","C","D","E","F","G","H","I","J","K","L","M",
           "N","O","P","Q","R","S","T","U","V","W","X","Y","Z">>
Letters == {Lower[i] : i \in 1..26} \cup {Upper[i] : i \in 1..26}
Digits == {"0","1","2","3","4","5","6","7","8","9"}
Space == {" ", "\n", "\t", "\r"}                       \* \s
WordChars == Letters \cup Digits \cup {"_"}            \* \w
Punct == {"/", "%", "{", "}", "[", "]", "\"", "'", ":", ",", "\\", ".", "+", "-",
          "?", "&", "=", "#", "_"}
Chars == Letters \cup Digits \cup Space \cup Punct
NonSpace == Chars \ Space                              \* \S
NotNewline == Chars \ {"\n"}                           \* .

\* re.IGNORECASE: compare characters by their upper-case form
upper(c) == IF \E i \in 1..26 : Lower[i] = c
            THEN Upper[CHOOSE i \in 1..26 : Lower[i] = c] ELSE c

\* the character at 0-based offset p, or "" past the end
At(s, p) == IF p >= 0 /\ p < Len(s) THEN s[p + 1] ELSE ""

\* length of the longest run of characters of S starting at offset p (greedy x*)
Run(s, p, S) ==
    IF p > Len(s) THEN 0 ELSE
    CHOOSE n \in 0..(Len(s) - p) :
        /\ \A k \in 1..n : s[p + k] \in S
        /\ (p + n = Len(s) \/ s[p + n + 1] \notin S)

\* a match is its length; NoMatch when the regex does not match at p
NoMatch == 0 - 1

\* x* in the place of x+: the empty run matches
Plus_or_empty(n) == n

Plus(n) == IF n > 0 THEN n ELSE NoMatch                \* x+ from the run of x*

\* words((...), suffix=r'\b') under IGNORECASE
WordAt(s, p, w) ==
    /\ p + Len(w) <= Len(s)
    /\ \A k \in 1..Len(w) : upper(s[p + k]) = upper(w[k])
    /\ At(s, p + Len(w)) \notin WordChars
MatchWords(s, p, W) ==
    IF \E w \in W : WordAt(s, p, w)
    THEN Len(CHOOSE w \in W : WordAt(s, p, w)) ELSE NoMatch

HttpWords == { <<"G","E","T">>, <<"P","O","S","T">>, <<"P","U","T">>,
               <<"D","E","L","E","T","E">> }
ConstWords == { <<"t","r","u","e">>, <<"f","a","l","s","e">>, <<"n","u","l","l">> }

\* ([eE][+-]?[0-9]+)? : the length the optional exponent adds at offset p
ExpLen(s, p) ==
    IF upper(At(s, p)) # "E" THEN NoMatch
    ELSE LET q == IF At(s, p + 1) \in {"+", "-"} THEN p + 2 ELSE p + 1
             d == Run(s, q, Digits)
         IN IF d > 0 THEN (q - p) + d ELSE NoMatch
OptExp(s, p) == IF ExpLen(s, p) = NoMatch THEN 0 ELSE ExpLen(s, p)
OptJ(s, p) == IF upper(At(s, p)) = "J" THEN 1 ELSE 0

\* (\d+\.\d*|\d*\.\d+) : the mantissa of a Number.Float
Mantissa(s, p) ==
    LET d == Run(s, p, Digits)
    IN IF At(s, p + d) # "." THEN NoMatch
       ELSE LET f == Run(s, p + d + 1, Digits)
            IN IF d > 0 \/ f > 0 THEN d + 1 + f ELSE NoMatch

\* the regular expressions of both lexers, by name
Match(re, s, p) ==
    CASE re = "comment" ->                      \* //.*
            IF At(s, p) = "/" /\ At(s, p + 1) = "/"
            THEN 2 + Run(s, p + 2, NotNewline) ELSE NoMatch
      [] re = "ws" -> Plus(Run(s, p, Space))                       \* \s+
      [] re = "nonws" -> Plus(Run(s, p, NonSpace))                 \* \S+
      [] re = "methods" -> MatchWords(s, p, HttpWords)
      [] re = "percent" ->                      \* ^(\s*)(%) ; flags drop re.MULTILINE
            IF p = 0 /\ At(s, Run(s, 0, Space)) = "%"
            THEN Run(s, 0, Space) + 1 ELSE NoMatch
      [] re = "rest" -> Len(s) - p                                 \* (?s)(.*)
      [] re = "{" -> IF At(s, p) = "{" THEN 1 ELSE NoMatch
      [] re = "}" -> IF At(s, p) = "}" THEN 1 ELSE NoMatch
      [] re = "[" -> IF At(s, p) = "[" THEN 1 ELSE NoMatch
      [] re = "]" -> IF At(s, p) = "]" THEN 1 ELSE NoMatch
      [] re = ":" -> IF At(s, p) = ":" THEN 1 ELSE NoMatch
      [] re = "," -> IF At(s, p) = "," THEN 1 ELSE NoMatch
      [] re = "dquote" -> IF At(s, p) = "\"" THEN 1 ELSE NoMatch
      [] re = "squote" -> IF At(s, p) = "'" THEN 1 ELSE NoMatch
      [] re = "consts" -> MatchWords(s, p, ConstWords)
      [] re = "dq_escape" ->                    \* \\\\|\\"|\\\n
            IF At(s, p) = "\\" /\ At(s, p + 1) \in {"\\", "\"", "\n"} THEN 2 ELSE NoMatch
      [] re = "sq_escape" ->                    \* \\\\|\\'|\\\n
            IF At(s, p) = "\\" /\ At(s, p + 1) \in {"\\", "'", "\n"} THEN 2 ELSE NoMatch
      [] re = "plain" ->                        \* [^\\\'"%\n]+
            Plus(Run(s, p, Chars \ {"\\", "'", "\"", "%", "\n"}))
      [] re = "quote_or_backslash" ->           \* [\'"\\]
            IF At(s, p) \in {"'", "\"", "\\"} THEN 1 ELSE NoMatch
      [] re = "float" ->                        \* (\d+\.\d*|\d*\.\d+)([eE][+-]?[0-9]+)?j?
            IF Mantissa(s, p) = NoMatch THEN NoMatch
            ELSE LET m == Mantissa(s, p)
                     e == OptExp(s, p + m)
                 IN m + e + OptJ(s, p + m + e)
      [] re = "float_exp" ->                    \* \d+[eE][+-]?[0-9]+j?
            LET d == Run(s, p, Digits)
            IN IF d = 0 \/ ExpLen(s, p + d) = NoMatch THEN NoMatch
               ELSE d + ExpLen(s, p + d) + OptJ(s, p + d + ExpLen(s, p + d))
      [] re = "oct" ->                          \* 0[0-7]+j?
            LET d == Run(s, p + 1, {"0","1","2","3","4","5","6","7"})
            IN IF At(s, p) = "0" /\ d > 0 THEN 1 + d + OptJ(s, p + 1 + d) ELSE NoMatch
      [] re = "bin" ->                          \* 0[bB][01]+
            LET d == Run(s, p + 2, {"0", "1"})
            IN IF At(s, p) = "0" /\ upper(At(s, p + 1)) = "B" /\ p + 2 <= Len(s) /\ d > 0
               THEN 2 + d ELSE NoMatch
      [] re = "hex" ->                          \* 0[xX][a-fA-F0-9]+
            LET d == Run(s, p + 2, Digits \cup {"a","b","c","d","e","f",
                                                 "A","B","C","D","E","F"})
            IN IF At(s, p) = "0" /\ upper(At(s, p + 1)) = "X" /\ p + 2 <= Len(s) /\ d > 0
               THEN 2 + d ELSE NoMatch
      [] re = "long" ->                         \* \d+L
            LET d == Run(s, p, Digits)
            IN IF d > 0 /\ upper(At(s, p + d)) = "L" THEN d + 1 ELSE NoMatch
      [] re = "int" ->                          \* \d+j?
            LET d == Run(s, p, Digits)
            IN IF d > 0 THEN d + OptJ(s, p + d) ELSE NoMatch

\* ------------------------------------------------------------ rule tables
\* a rule: regex, action (a token type, or a bygroups/using callback), new state.
\* new state as RegexLexer stores it: None, a tuple of names, or an int for "#pop"
Rule(re, tt) == [re |-> re, tt |-> tt, kind |-> "none", states |-> <<>>]
RuleTo(re, tt, states) == [re |-> re, tt |-> tt, kind |-> "tuple", states |-> states]
RulePop(re, tt) == [re |-> re, tt |-> tt, kind |-> "int", states |-> <<>>]

innerstring_rules(ttype) == << Rule("plain", ttype), Rule("quote_or_backslash", ttype) >>

dqs(ttype) == << RulePop("dquote", ttype), Rule("dq_escape", "String.Escape") >>
              \o innerstring_rules(ttype)

sqs(ttype) == << RulePop("squote", ttype), Rule("sq_escape", "String.Escape") >>
              \o innerstring_rules(ttype)

NumberRules == << Rule("float", "Number.Float"), Rule("float_exp", "Number.Float"),
                  Rule("oct", "Number.Oct"), Rule("bin", "Number.Bin"),
                  Rule("hex", "Number.Hex"), Rule("long", "Number.Integer.Long"),
                  Rule("int", "Number.Integer") >>

ValueRules == << Rule("comment", "Comment.Single"),
                 RuleTo("{", "CurlyLeft", <<"dict-key">>),
                 RuleTo("[", "BracketLeft", <<"array-values">>),
                 RuleTo("dquote", "String.Double", <<"dqs">>),
                 RuleTo("squote", "String.Single", <<"sqs">>),
                 Rule("consts", "Name.Builtin") >>
              \o NumberRules \o << Rule("ws", "Whitespace") >>

PayloadLexerTokens(state) ==
    CASE state = "root" ->
            << Rule("comment", "Comment.Single"),
               RuleTo("{", "CurlyLeft", <<"dict-key">>),
               Rule("ws", "Whitespace") >>
      [] state = "dict-key" ->
            << Rule("comment", "Comment.Single"),
               RulePop("}", "CurlyRight"),
               RuleTo("dquote", "String.Symbol", <<"dqs-key">>),
               RuleTo("squote", "String.Symbol", <<"sqs-key">>),
               RuleTo(":", "Colon", <<"#pop", "dict-value">>),
               Rule("ws", "Whitespace") >>
      [] state = "dict-value" ->
            << RuleTo(",", "Comma", <<"#pop", "dict-key">>),
               RulePop("}", "CurlyRight") >> \o ValueRules
      [] state = "array-values" ->
            << Rule(",", "Comma"), RulePop("]", "BracketRight") >> \o ValueRules
      [] state = "value" -> ValueRules
      [] state = "dqs-key" -> dqs("String.Symbol")
      [] state = "sqs-key" -> sqs("String.Symbol")
      [] state = "dqs" -> dqs("String.Double")
      [] state = "sqs" -> dqs("String.Single")
      [] state = "numbers" -> NumberRules

\* PeekLexer's table with the payload rule keeping its state
PeekLexerTokens_PayloadStays(state) ==
    CASE state = "root" ->
            << Rule("comment", "Comment.Single"),
               Rule("ws", "Whitespace"),
               RuleTo("methods", "Keyword", <<"#pop", "path">>),
               RuleTo("percent", "bygroups(Whitespace, Percent)", <<"#pop", "command">>) >>
      [] state = "path" ->
            << Rule("ws", "Whitespace"),
               RuleTo("nonws", "Literal", <<"#pop", "payload">>) >>
      [] state = "payload" ->
            << Rule("rest", "bygroups(using(PayloadLexer))") >>
      [] state = "command" ->
            << RuleTo("nonws", "Name.Builtin", <<"#pop", "args">>),
               Rule("ws", "Whitespace") >>
      [] state = "args" ->
            << Rule("comment", "Comment.Single"),
               Rule("nonws", "Literal"),
               Rule("ws", "Whitespace") >>

PeekLexerTokens(state) ==
    CASE state = "root" ->
            << Rule("comment", "Comment.Single"),
               Rule("ws", "Whitespace"),
               RuleTo("methods", "Keyword", <<"#pop", "path">>),
               RuleTo("percent", "bygroups(Whitespace, Percent)", <<"#pop", "command">>) >>
      [] state = "path" ->
            << Rule("ws", "Whitespace"),
               RuleTo("nonws", "Literal", <<"#pop", "payload">>) >>
      [] state = "payload" ->
            << RulePop("rest", "bygroups(using(PayloadLexer))") >>
      [] state = "command" ->
            << RuleTo("nonws", "Name.Builtin", <<"#pop", "args">>),
               Rule("ws", "Whitespace") >>
      [] state = "args" ->
            << Rule("comment", "Comment.Single"),
               Rule("nonws", "Literal"),
               Rule("ws", "Whitespace") >>

\* --------------------------------- RegexLexer.get_tokens_unprocessed
\* index of the first rule of the list that matches at p, 0 when none does
FirstMatch(rules, s, p) ==
    IF \E i \in 1..Len(rules) : Match(rules[i].re, s, p) # NoMatch
    THEN CHOOSE i \in 1..Len(rules) :
            /\ Match(rules[i].re, s, p) # NoMatch
            /\ \A j \in 1..(i - 1) : Match(rules[j].re, s, p) = NoMatch
    ELSE 0

\* the state transition with a pop that removes whatever is on top
RECURSIVE ApplyStates_pop_any(_, _)
ApplyStates_pop_any(st, states) ==
    IF states = <<>> THEN st
    ELSE LET x == Head(states)
             nxt == IF x = "#pop" THEN SubSeq(st, 1, Len(st) - 1)
                    ELSE IF x = "#push" THEN Append(st, st[Len(st)])
                    ELSE Append(st, x)
         IN ApplyStates_pop_any(nxt, Tail(states))

\* the state transition of a matched rule; a pop never removes the last state
RECURSIVE ApplyStates(_, _)
ApplyStates(st, states) ==
    IF states = <<>> THEN st
    ELSE LET x == Head(states)
             nxt == IF x = "#pop"
                    THEN (IF Len(st) > 1 THEN SubSeq(st, 1, Len(st) - 1) ELSE st)
                    ELSE IF x = "#push" THEN Append(st, st[Len(st)])
                    ELSE Append(st, x)
         IN ApplyStates(nxt, Tail(states))

NewState(st, rule) ==
    CASE rule.kind = "none" -> st
      [] rule.kind = "tuple" -> ApplyStates(st, rule.states)
      [] rule.kind = "int" ->                 \* "#pop" is stored as -1
            IF 1 >= Len(st) THEN SubSeq(st, 1, 1) ELSE SubSeq(st, 1, Len(st) - 1)

Token(i, tt, v) == [index |-> i, ttype |-> tt, value |-> v]

\* the tokens of a nested lexer yielded with its own offsets
Emit_Unshifted(rule, s, p, n, base) ==
    << Token(p, rule.tt, SubSeq(s, p + 1, p + n)) >>

\* the tokens a matched rule yields for s[p .. p+n), offsets shifted by base
Emit(rule, s, p, n, base) ==
    IF rule.tt = "bygroups(Whitespace, Percent)"
    THEN (IF n > 1 THEN << Token(base + p, "Whitespace", SubSeq(s, p + 1, p + n - 1)) >>
          ELSE <<>>)
         \o << Token(base + p + n - 1, "Percent", SubSeq(s, p + n, p + n)) >>
    ELSE << Token(base + p, rule.tt, SubSeq(s, p + 1, p + n)) >>

\* the region PayloadLexer is run on: match.group() of (?s)(.*)
Region == SubSeq(text, ibase + 1, Len(text))

\* ---- PeekLexer: one iteration of the while loop
PeekRules == PeekLexerTokens(Last(stack))
PeekHit == FirstMatch(PeekRules, text, pos)

\* a rule with a token-type action matched
PeekLexerRule ==
    /\ mode \in {"lex", "pipe"} /\ lx = "outer"
    /\ PeekHit # 0
    /\ PeekRules[PeekHit].tt # "bygroups(using(PayloadLexer))"
    /\ LET r == PeekRules[PeekHit]
           n == Match(r.re, text, pos)
       IN /\ out' = out \o Emit(r, text, pos, n, 0)
          /\ pos' = pos + n
          /\ stack' = NewState(stack, r)
          /\ step' = [lexer |-> "PeekLexer", state |-> Last(stack),
                      from |-> pos, to |-> pos + n]
    /\ UNCHANGED <<mode, text, ipos, istack, ibase, lx>>
    /\ UNCHANGED connVars /\ UNCHANGED keyVars /\ UNCHANGED matchVars /\ UNCHANGED compVars

\* the payload rule matched: its callback starts PayloadLexer on match.group()
PeekLexerUsing ==
    /\ mode \in {"lex", "pipe"} /\ lx = "outer"
    /\ PeekHit # 0
    /\ PeekRules[PeekHit].tt = "bygroups(using(PayloadLexer))"
    /\ lx' = "inner"
    /\ ibase' = pos /\ ipos' = 0 /\ istack' = <<"root">>
    /\ UNCHANGED <<mode, text, pos, stack, out, step>>
    /\ UNCHANGED connVars /\ UNCHANGED keyVars /\ UNCHANGED matchVars /\ UNCHANGED compVars

\* no rule matched and a character is left: "\n" resets the stack to root and
\* is yielded as Text, any other character is yielded as Error
PeekLexerNoMatch ==
    /\ mode \in {"lex", "pipe"} /\ lx = "outer"
    /\ PeekHit = 0 /\ pos < Len(text)
    /\ IF At(text, pos) = "\n"
       THEN /\ stack' = <<"root">>
            /\ out' = Append(out, Token(pos, "Text", <<"\n">>))
       ELSE /\ stack' = stack
            /\ out' = Append(out, Token(pos, "Error", <<At(text, pos)>>))
    /\ pos' = pos + 1
    /\ step' = [lexer |-> "PeekLexer", state |-> Last(stack), from |-> pos, to |-> pos + 1]
    /\ UNCHANGED <<mode, text, ipos, istack, ibase, lx>>
    /\ UNCHANGED connVars /\ UNCHANGED keyVars /\ UNCHANGED matchVars /\ UNCHANGED compVars

\* no rule matched at the end of the input: text[pos] raises IndexError, break
PeekLexerEnd ==
    /\ mode \in {"lex", "pipe"} /\ lx = "outer"
    /\ PeekHit = 0 /\ pos >= Len(text)
    /\ lx' = "done"
    /\ UNCHANGED <<mode, text, pos, stack, ipos, istack, ibase, out, step>>
    /\ UNCHANGED connVars /\ UNCHANGED keyVars /\ UNCHANGED matchVars /\ UNCHANGED compVars

\* ---- PayloadLexer, run by using(PayloadLexer) on the matched region
PayloadRules == PayloadLexerTokens(Last(istack))
PayloadHit == FirstMatch(PayloadRules, Region, ipos)

PayloadLexerRule ==
    /\ mode \in {"lex", "pipe"} /\ lx = "inner"
    /\ PayloadHit # 0
    /\ LET r == PayloadRules[PayloadHit]
           n == Match(r.re, Region, ipos)
       IN /\ out' = out \o Emit(r, Region, ipos, n, ibase)
          /\ ipos' = ipos + n
          /\ istack' = NewState(istack, r)
          /\ step' = [lexer |-> "PayloadLexer", state |-> Last(istack),
                      from |-> ipos, to |-> ipos + n]
    /\ UNCHANGED <<mode, text, pos, stack, ibase, lx>>
    /\ UNCHANGED connVars /\ UNCHANGED keyVars /\ UNCHANGED matchVars /\ UNCHANGED compVars

PayloadLexerNoMatch ==
    /\ mode \in {"lex", "pipe"} /\ lx = "inner"
    /\ PayloadHit = 0 /\ ipos < Len(Region)
    /\ IF At(Region, ipos) = "\n"
       THEN /\ istack' = <<"root">>
            /\ out' = Append(out, Token(ibase + ipos, "Text", <<"\n">>))
       ELSE /\ istack' = istack
            /\ out' = Append(out, Token(ibase + ipos, "Error", <<At(Region, ipos)>>))
    /\ ipos' = ipos + 1
    /\ step' = [lexer |-> "PayloadLexer", state |-> Last(istack),
                from |-> ipos, to |-> ipos + 1]
    /\ UNCHANGED <<mode, text, pos, stack, ibase, lx>>
    /\ UNCHANGED connVars /\ UNCHANGED keyVars /\ UNCHANGED matchVars /\ UNCHANGED compVars

\* PayloadLexer is exhausted: the callback returns, PeekLexer moves to m.end()
\* and applies the payload rule's "#pop"
PayloadLexerEnd ==
    /\ mode \in {"lex", "pipe"} /\ lx = "inner"
    /\ PayloadHit = 0 /\ ipos >= Len(Region)
    /\ lx' = "outer"
    /\ pos' = pos + Match("rest", text, pos)
    /\ stack' = NewState(stack, PeekRules[PeekHit])
    /\ step' = [lexer |-> "PeekLexer", state |-> Last(stack),
                from |-> pos, to |-> pos + Match("rest", text, pos)]
    /\ UNCHANGED <<mode, text, ipos, istack, ibase, out>>
    /\ UNCHANGED connVars /\ UNCHANGED keyVars /\ UNCHANGED matchVars /\ UNCHANGED compVars

\* ---- inputs: a statement head followed by every short string of LexChars
LexChars == {" ", "\n", "{", "}", "[", "\"", "'", ":", "a", "\\"}
LexHeads == { <<>>,
              <<"G","E","T"," ">>,
              <<"g","e","t"," ","a"," ">>,
              <<"%">> }

InitLex ==
    /\ mode = "lex"
    /\ \E h \in LexHeads, t \in SeqsUpTo(LexChars, MaxTail) : text = h \o t
    /\ pos = 0 /\ stack = <<"root">>
    /\ ipos = 0 /\ istack = <<>> /\ ibase = 0
    /\ lx = "outer" /\ out = <<>> /\ step = <<>>
    /\ ConnIdle /\ MatchIdle /\ CompIdle /\ KeysIdle

NextLex ==
    \/ PeekLexerRule
    \/ PeekLexerUsing
    \/ PeekLexerNoMatch
    \/ PeekLexerEnd
    \/ PayloadLexerRule
    \/ PayloadLexerNoMatch
    \/ PayloadLexerEnd

SpecLex == InitLex /\ [][NextLex]_vars

\* inputs termination is examined on: openers that are never closed, an
\* unrecognized letter, a newline
LiveChars == {"{", "[", "\"", ":", "a", "\n"}

InitLexLive ==
    /\ mode = "lex"
    /\ \E h \in LexHeads, t \in SeqsUpTo(LiveChars, MaxLive) : text = h \o t
    /\ pos = 0 /\ stack = <<"root">>
    /\ ipos = 0 /\ istack = <<>> /\ ibase = 0
    /\ lx = "outer" /\ out = <<>> /\ step = <<>>
    /\ ConnIdle /\ MatchIdle /\ CompIdle /\ KeysIdle

\* the scheduler is the while loop of get_tokens_unprocessed: it keeps iterating
SpecLexFair == InitLexLive /\ [][NextLex]_vars /\ WF_vars(NextLex)

Span(t) == {k \in 0..(Len(text) - 1) : t.index <= k /\ k < t.index + Len(t.value)}

\* C10: the tokens of one pass, the nested payload lexer's included, have strictly
\* increasing start offsets, do not overlap, each carry the input substring at
\* their offset, and cover every non-whitespace character exactly once.
C10_TokensPartition ==
    /\ \A i \in 1..Len(out) :
          /\ out[i].value = SubSeq(text, out[i].index + 1, out[i].index + Len(out[i].value))
          /\ out[i].index + Len(out[i].value) <= Len(text)
          /\ i > 1 => /\ out[i - 1].index < out[i].index
                      /\ out[i - 1].index + Len(out[i - 1].value) <= out[i].index
    /\ lx = "done" =>
          \A k \in 0..(Len(text) - 1) :
              At(text, k) \notin Space =>
                  Cardinality({i \in 1..Len(out) : k \in Span(out[i])}) = 1

\* a finished pass whose payload lexer yielded tokens after the path, with
\* whitespace left between tokens
C10_Witness ==
    /\ lx = "done" /\ ibase > 0
    /\ \E i \in 1..Len(out) : out[i].index > ibase /\ Len(out[i].value) > 1
    /\ \E i \in 1..Len(out) : out[i].ttype = "Error"

\* ================================================================ completer
\* ------------------------------------------------------------- fixtures
\* names the fixtures use, as character sequences
GET == <<"G","E","T">>
PUT == <<"P","U","T">>
POST == <<"P","O","S","T">>
DELETE == <<"D","E","L","E","T","E">>
myfunc == <<"m","y","f","u","n","c">>

\* load_rest_api_spec(): endpoint name -> {url: {paths: [{path, methods}]}, params},
\* in dict order; params = {} stands for an absent or empty "params". Two
\* endpoints (index, create) share a template and a method.
RestApiSpec ==
    << [name |-> "search",
        paths |-> << [path |-> <<"/","{","i","}","/","_","a">>, methods |-> {GET, POST}],
                     [path |-> <<"/","_","a">>, methods |-> {GET, POST}] >>,
        params |-> { <<"q">>, <<"s","i","z","e">> }],
       [name |-> "get",
        paths |-> << [path |-> <<"/","{","i","}","/","a","/","{","d","}">>,
                      methods |-> {GET}] >>,
        params |-> {}],
       [name |-> "index",
        paths |-> << [path |-> <<"/","{","i","}">>, methods |-> {PUT, POST}],
                     [path |-> <<"/","{","i","}","/","a">>, methods |-> {PUT}] >>,
        params |-> { <<"q">>, <<"t">> }],
       [name |-> "delete_by_query",
        paths |-> << [path |-> <<"/","{","i","}","/","_","a">>, methods |-> {DELETE, PUT}] >>,
        params |-> { <<"r">> }],
       [name |-> "create",
        paths |-> << [path |-> <<"/","{","i","}","/","a">>, methods |-> {PUT}] >>,
        params |-> {}] >>

\* the spec directory is missing: load_rest_api_spec() returns {}
EmptySpec == <<>>

\* NAMES: the function registry; a function may declare option_names
NAMES == { [name |-> myfunc, option_names |-> << <<"a">>, <<"b">> >>],
           [name |-> <<"g">>, option_names |-> <<>>] }

HasName(n) == \E f \in NAMES : f.name = n
NAMES_get(n) == CHOOSE f \in NAMES : f.name = n

HTTP_METHOD_WORDS == << GET, POST, PUT, DELETE >>
FUNC_NAME_WORDS == SetToSeq({f.name : f \in NAMES})
\* the call options with runas left out
ES_API_CALL_OPTION_WORDS_conn_only == << <<"c","o","n","n","=">> >>

\* [w + '=' for w in ['conn', 'runas']]
ES_API_CALL_OPTION_WORDS == << <<"c","o","n","n","=">>, <<"r","u","n","a","s","=">> >>

\* a return value: a list of candidate texts, handed to the caller's filter
\* (WordCompleter / FuzzyCompleter), or Python's None
List(items) == [kind |-> "list", items |-> items]
None == [kind |-> "None", items |-> <<>>]

\* ------------------------------------------------------------ str helpers
upper_str(s) == [k \in 1..Len(s) |-> upper(s[k])]

\* s.split(sep) with the empty parts dropped: [p for p in s.split('/') if p]
RECURSIVE SplitNonEmpty(_, _)
SplitNonEmpty(s, sep) ==
    IF s = <<>> THEN <<>>
    ELSE IF Head(s) = sep THEN SplitNonEmpty(Tail(s), sep)
    ELSE LET n == Run(s, 0, Chars \ {sep})
         IN << SubSeq(s, 1, n) >> \o SplitNonEmpty(SubSeq(s, n + 1, Len(s)), sep)

\* '/'.join(parts)
RECURSIVE Join(_)
Join(parts) ==
    IF parts = <<>> THEN <<>>
    ELSE IF Len(parts) = 1 THEN parts[1]
    ELSE parts[1] \o <<"/">> \o Join(Tail(parts))

\* [f(x) for x in seq if keep]
RECURSIVE SelectKind(_, _)
SelectKind(toks, kinds) ==
    IF toks = <<>> THEN <<>>
    ELSE (IF Head(toks).ttype \in kinds THEN << Head(toks) >> ELSE <<>>)
         \o SelectKind(Tail(toks), kinds)

Values(toks) == [k \in 1..Len(toks) |-> toks[k].value]

RECURSIVE Flatten(_)
Flatten(ss) == IF ss = <<>> THEN <<>> ELSE Head(ss) \o Flatten(Tail(ss))

Range(f) == {f[x] : x \in DOMAIN f}

\* ---------------------------------------------------------- UrlPathLexer
\* the URL sub-lexer: "/" and path segments up to "?", then name=value pairs
\* separated by "&"
RECURSIVE UrlQuery(_, _, _)
UrlQuery(s, p, after_assign) ==
    IF p >= Len(s) THEN <<>>
    ELSE IF At(s, p) = "&"
    THEN << Token(p, "Ampersand", <<"&">>) >> \o UrlQuery(s, p + 1, FALSE)
    ELSE IF At(s, p) = "=" /\ ~after_assign
    THEN << Token(p, "Assign", <<"=">>) >> \o UrlQuery(s, p + 1, TRUE)
    ELSE IF after_assign
    THEN LET n == Run(s, p, Chars \ {"&"})
         IN << Token(p, "ParamValue", SubSeq(s, p + 1, p + n)) >>
            \o UrlQuery(s, p + n, FALSE)
    ELSE LET n == Run(s, p, Chars \ {"&", "="})
         IN << Token(p, "ParamName", SubSeq(s, p + 1, p + n)) >>
            \o UrlQuery(s, p + n, FALSE)

RECURSIVE UrlPath(_, _)
UrlPath(s, p) ==
    IF p >= Len(s) THEN <<>>
    ELSE IF At(s, p) = "/"
    THEN << Token(p, "Slash", <<"/">>) >> \o UrlPath(s, p + 1)
    ELSE IF At(s, p) = "?"
    THEN << Token(p, "QuestionMark", <<"?">>) >> \o UrlQuery(s, p + 1, FALSE)
    ELSE LET n == Run(s, p, Chars \ {"/", "?"})
         IN << Token(p, "PathPart", SubSeq(s, p + 1, p + n)) >> \o UrlPath(s, p + n)

UrlPathLexer(s) == UrlPath(s, 0)

\* ------------------------------------------------- PeekCompleter's methods
Reverse(s) == [k \in 1..Len(s) |-> s[Len(s) + 1 - k]]

with_assign(names) == [k \in 1..Len(names) |-> names[k] \o <<"=">>]

\* what the first deciding token of the list gives; None when the list has none
RECURSIVE options_scan(_)
options_scan(toks) ==
    IF toks = <<>> THEN None
    ELSE LET t == Head(toks)
         IN CASE t.ttype = "HttpMethod" -> List(ES_API_CALL_OPTION_WORDS)
              [] t.ttype = "FuncName" ->
                    IF ~HasName(t.value) \/ NAMES_get(t.value).option_names = <<>>
                    THEN List(<<>>)
                    ELSE List(with_assign(NAMES_get(t.value).option_names))
              [] t.ttype = "BlankLine" -> List(<<>>)
              [] OTHER -> options_scan(Tail(toks))

\* _complete_options scanning from the first token on
complete_options_forward(toks) ==
    IF Len(toks) > 0 /\ Last(toks).ttype = "Assign" THEN List(<<>>)
    ELSE options_scan(toks)

\* _complete_options without the test for a preceding "="
complete_options_no_assign(toks) == options_scan(Reverse(toks))

\* _complete_options: nothing right after "=", else the scan over tokens[::-1]
complete_options(toks) ==
    IF Len(toks) > 0 /\ Last(toks).ttype = "Assign" THEN List(<<>>)
    ELSE options_scan(Reverse(toks))

UrlKinds == {"PathPart", "Slash", "QuestionMark", "Ampersand", "ParamName", "Assign",
             "ParamValue"}

\* ts of _complete_path_part without dropping the segment under the cursor
path_part_ts_keep(path_tokens) == Values(SelectKind(path_tokens, UrlKinds \ {"Slash"}))

\* ts of _complete_path_part: the values of the tokens that are not Slash, the
\* last one popped when the cursor token is a PathPart
path_part_ts(path_tokens) ==
    LET all == Values(SelectKind(path_tokens, UrlKinds \ {"Slash"}))
    IN IF Last(path_tokens).ttype = "PathPart" THEN SubSeq(all, 1, Len(all) - 1) ELSE all

\* the candidates one template contributes to path completion
path_candidate(method, T, api_path) ==
    LET P == SplitNonEmpty(api_path.path, "/")
    IN IF method \notin api_path.methods THEN <<>>
       ELSE IF Len(T) >= Len(P) THEN <<>>
       ELSE IF ~can_match(T, P) THEN <<>>
       ELSE << Join(SubSeq(P, Len(T) + 1, Len(P))) >>

\* the candidates list built by _complete_path_part
path_part_candidates(method, path_tokens, sp) ==
    LET T == path_part_ts(path_tokens)
    IN Flatten([e \in 1..Len(sp) |->
           Flatten([k \in 1..Len(sp[e].paths) |->
               path_candidate(method, T, sp[e].paths[k])])])

\* whether one template lets its endpoint's parameter names in
params_offered(method, T, api_spec, api_path) ==
    /\ method \in api_path.methods
    /\ api_spec.params # {}
    /\ Len(T) = Len(SplitNonEmpty(api_path.path, "/"))
    /\ can_match(T, SplitNonEmpty(api_path.path, "/"))

\* _complete_query_param_name with the length test of path completion
query_param_candidates_shorter(method, path_tokens, sp) ==
    LET T == Values(SelectKind(path_tokens, {"PathPart"}))
    IN SetToSeq(UNION { sp[e].params : e \in
           { x \in 1..Len(sp) : \E k \in 1..Len(sp[x].paths) :
                 /\ method \in sp[x].paths[k].methods
                 /\ Len(T) <= Len(SplitNonEmpty(sp[x].paths[k].path, "/"))
                 /\ can_match(T, SplitNonEmpty(sp[x].paths[k].path, "/")) } })

\* the candidates of _complete_query_param_name: a set, listed once each
query_param_candidates(method, path_tokens, sp) ==
    LET T == Values(SelectKind(path_tokens, {"PathPart"}))
    IN SetToSeq(UNION { sp[e].params : e \in
           { x \in 1..Len(sp) : \E k \in 1..Len(sp[x].paths) :
                 params_offered(method, T, sp[x], sp[x].paths[k]) } })

\* document.cursor_position: text is document.text[:cursor], made of the
\* tokens and the whitespace around them
EndOf(t) == t.index + Len(t.value)
Cursor == (IF tokens = <<>> THEN 0 ELSE EndOf(Last(tokens))) + Len(trail)

\* the index i the for loop of get_completions breaks at, 0 when it runs out
FoundToken ==
    IF \E i \in 1..Len(tokens) : tokens[i].index < Cursor /\ Cursor <= EndOf(tokens[i])
    THEN CHOOSE i \in 1..Len(tokens) :
            /\ tokens[i].index < Cursor /\ Cursor <= EndOf(tokens[i])
            /\ \A j \in 1..(i - 1) : ~(tokens[j].index < Cursor /\ Cursor <= EndOf(tokens[j]))
    ELSE 0

\* the test of line 53 without the search for a newline
on_separate_line_never == FALSE

\* text[tokens[-1].index + len(tokens[-1].value):].find('\n') != -1
on_separate_line == \E k \in 1..Len(trail) : trail[k] = "\n"

Return(r) == result' = r /\ pc' = "done" /\ args' = <<>>
Call(method, a) == result' = result /\ pc' = method /\ args' = a

get_completions ==
    /\ mode = "comp" /\ pc = "get_completions"
    /\ via' = Append(via, "get_completions")
    /\ IF Len(tokens) = 0 THEN Return(List(<<>>))
       ELSE IF FoundToken = 0
       THEN (IF on_separate_line
             THEN Return(List(<<>>))
             ELSE Call("_complete_options", [tokens |-> tokens]))
       ELSE LET i == FoundToken
                t == tokens[i]
            IN IF t.ttype \in {"HttpMethod", "FuncName"}
               THEN Return(List(HTTP_METHOD_WORDS \o FUNC_NAME_WORDS))
               ELSE IF i > 1 /\ tokens[i - 1].ttype = "HttpMethod"
               THEN Call("_complete_path", [tokens |-> tokens])
               ELSE IF t.ttype \in {"Error", "KeyName", "Name"}
               THEN Call("_complete_options",
                         [tokens |-> SubSeq(tokens, 1, Len(tokens) - 1)])
               ELSE Return(List(<<>>))
    /\ UNCHANGED <<mode, tokens, trail, specs>>
    /\ UNCHANGED connVars /\ UNCHANGED keyVars /\ UNCHANGED matchVars /\ UNCHANGED lexVars

CompleteOptions ==
    /\ mode = "comp" /\ pc = "_complete_options"
    /\ via' = Append(via, "_complete_options")
    /\ result' = complete_options(args.tokens)
    /\ pc' = "done"
    /\ UNCHANGED <<mode, tokens, trail, specs, args>>
    /\ UNCHANGED connVars /\ UNCHANGED keyVars /\ UNCHANGED matchVars /\ UNCHANGED lexVars

CompletePath ==
    /\ mode = "comp" /\ pc = "_complete_path"
    /\ via' = Append(via, "_complete_path")
    /\ LET toks == args.tokens
           method_token == toks[Len(toks) - 1]
           path_token == toks[Len(toks)]
           method == upper_str(method_token.value)
           cursor_position == Cursor - path_token.index
           path == SubSeq(path_token.value, 1, Min(cursor_position, Len(path_token.value)))
           path_tokens == UrlPathLexer(path)
       IN IF path_tokens = <<>> THEN Return(List(<<>>))
          ELSE IF Last(path_tokens).ttype \in {"PathPart", "Slash"}
          THEN Call("_complete_path_part",
                    [method |-> method, path_tokens |-> path_tokens])
          ELSE IF Last(path_tokens).ttype \in {"ParamName", "QuestionMark", "Ampersand"}
          THEN Call("_complete_query_param_name",
                    [method |-> method, path_tokens |-> path_tokens])
          ELSE Return(List(<<>>))
    /\ UNCHANGED <<mode, tokens, trail, specs>>
    /\ UNCHANGED connVars /\ UNCHANGED keyVars /\ UNCHANGED matchVars /\ UNCHANGED lexVars

CompletePathPart ==
    /\ mode = "comp" /\ pc = "_complete_path_part"
    /\ via' = Append(via, "_complete_path_part")
    /\ result' = List(path_part_candidates(args.method, args.path_tokens, specs))
    /\ pc' = "done"
    /\ UNCHANGED <<mode, tokens, trail, specs, args>>
    /\ UNCHANGED connVars /\ UNCHANGED keyVars /\ UNCHANGED matchVars /\ UNCHANGED lexVars

CompleteQueryParamName ==
    /\ mode = "comp" /\ pc = "_complete_query_param_name"
    /\ via' = Append(via, "_complete_query_param_name")
    /\ result' = List(query_param_candidates(args.method, args.path_tokens, specs))
    /\ pc' = "done"
    /\ UNCHANGED <<mode, tokens, trail, specs, args>>
    /\ UNCHANGED connVars /\ UNCHANGED keyVars /\ UNCHANGED matchVars /\ UNCHANGED lexVars

NextComp ==
    \/ get_completions
    \/ CompleteOptions
    \/ CompletePath
    \/ CompletePathPart
    \/ CompleteQueryParamName

\* ---- inputs: the token lists before the cursor
\* lay tokens out from offset 0: one space before each token, none around "="
RECURSIVE Layout(_, _, _)
Layout(items, at, glued) ==
    IF items = <<>> THEN <<>>
    ELSE LET it == Head(items)
             i == IF at = 0 \/ glued \/ it.ttype = "Assign" THEN at ELSE at + 1
         IN << Token(i, it.ttype, it.value) >>
            \o Layout(Tail(items), i + Len(it.value), it.ttype = "Assign")

Item(tt, v) == [ttype |-> tt, value |-> v]

TokenChoices ==
    { Item("HttpMethod", POST), Item("FuncName", myfunc), Item("FuncName", <<"g">>),
      Item("FuncName", <<"h">>), Item("BlankLine", <<"\n">>), Item("KeyName", <<"a">>),
      Item("Assign", <<"=">>), Item("Literal", myfunc), Item("Error", <<"#">>),
      Item("Percent", <<"%">>) }

Trails == { <<>>, <<" ">>, <<" ", "\n">> }

PathChars == {"/", "a", "_", "?", "=", "&"}
Methods == { <<"g","e","t">>, PUT }

InitCompOptions ==
    /\ \E items \in SeqsUpTo(TokenChoices, MaxTokens) : tokens = Layout(items, 0, FALSE)
    /\ trail \in Trails
    /\ specs = RestApiSpec

InitCompPath ==
    /\ \E m \in Methods, path \in SeqsUpTo(PathChars, MaxPath) \ {<<>>} :
          tokens = Layout(<< Item("HttpMethod", m), Item("Literal", path) >>, 0, FALSE)
    /\ trail = <<>>
    /\ specs \in {RestApiSpec, EmptySpec}

InitComp ==
    /\ mode = "comp"
    /\ (InitCompOptions \/ InitCompPath)
    /\ pc = "get_completions" /\ args = <<>> /\ result = <<>> /\ via = <<>>
    /\ ConnIdle /\ MatchIdle /\ LexIdle /\ KeysIdle

SpecComp == InitComp /\ [][NextComp]_vars

\* ---- get_completions from the text: lines 35-40
\* process_tokens merging Error tokens two by two, in one pass
RECURSIVE process_tokens_in_pairs(_)
process_tokens_in_pairs(toks) ==
    IF Len(toks) < 2 THEN toks
    ELSE IF toks[1].ttype = "Error" /\ toks[2].ttype = "Error"
    THEN << Token(toks[1].index, "Error", toks[1].value \o toks[2].value) >>
         \o process_tokens_in_pairs(SubSeq(toks, 3, Len(toks)))
    ELSE << toks[1] >> \o process_tokens_in_pairs(Tail(toks))

\* process_tokens: adjacent Error tokens become one, from the first one's offset
RECURSIVE process_tokens(_)
process_tokens(toks) ==
    IF Len(toks) < 2 THEN toks
    ELSE IF toks[1].ttype = "Error" /\ toks[2].ttype = "Error"
    THEN process_tokens(<< Token(toks[1].index, "Error", toks[1].value \o toks[2].value) >>
                        \o SubSeq(toks, 3, Len(toks)))
    ELSE << toks[1] >> \o process_tokens(Tail(toks))

\* the tokens the completer sees: no whitespace, no comments, and the method
\* keyword under the name the completer imports for it
RECURSIVE completer_tokens(_)
completer_tokens(toks) ==
    IF toks = <<>> THEN <<>>
    ELSE LET t == Head(toks)
         IN (IF t.ttype \in {"Whitespace", "Text", "Comment.Single"} THEN <<>>
             ELSE IF t.ttype = "Keyword" THEN << Token(t.index, "HttpMethod", t.value) >>
             ELSE << t >>)
            \o completer_tokens(Tail(toks))

\* text = document.text[:cursor] has been lexed: get_completions goes on with
\* the tokens
LexedForCompletion ==
    /\ mode = "pipe" /\ lx = "done"
    /\ mode' = "comp"
    /\ LET toks == completer_tokens(process_tokens(out))
       IN /\ tokens' = toks
          /\ trail' = IF toks = <<>> THEN text
                      ELSE SubSeq(text, EndOf(Last(toks)) + 1, Len(text))
    /\ pc' = "get_completions"
    /\ UNCHANGED <<specs, args, result, via>>
    /\ UNCHANGED connVars /\ UNCHANGED keyVars /\ UNCHANGED matchVars /\ UNCHANGED lexVars

PipeChars == {" ", "/", "a", "?", "{", "="}
PipeHeads == { <<>>, POST \o <<" ">> \o myfunc, <<"g","e","t"," ">> }

InitPipe ==
    /\ mode = "pipe"
    /\ \E h \in PipeHeads, t \in SeqsUpTo(PipeChars, MaxTyped) : text = h \o t
    /\ pos = 0 /\ stack = <<"root">>
    /\ ipos = 0 /\ istack = <<>> /\ ibase = 0
    /\ lx = "outer" /\ out = <<>> /\ step = <<>>
    /\ tokens = <<>> /\ trail = <<>> /\ specs = RestApiSpec
    /\ pc = "lexing" /\ args = <<>> /\ result = <<>> /\ via = <<>>
    /\ ConnIdle /\ MatchIdle /\ KeysIdle

NextPipe ==
    \/ NextLex
    \/ LexedForCompletion
    \/ NextComp

SpecPipe == InitPipe /\ [][NextPipe]_vars

\* ------------------------------------------------------ completion claims
Ran(m) == \E k \in 1..Len(via) : via[k] = m
Finished(m) == pc = "done" /\ via # <<>> /\ Last(via) = m

\* the method and the path text of an API call under completion
TypedMethod == upper_str(tokens[Len(tokens) - 1].value)
TypedPath == Last(tokens).value

\* every template of the spec mapping, with its endpoint
TemplatesOf ==
    UNION { { [e |-> e, k |-> k] : k \in 1..Len(specs[e].paths) } : e \in 1..Len(specs) }
Tpl(x) == specs[x.e].paths[x.k]
Segs(x) == SplitNonEmpty(Tpl(x).path, "/")

\* the typed segments before the cursor, without the one under the cursor
SegsBeforeCursor ==
    LET all == SplitNonEmpty(TypedPath, "/")
    IN IF Last(TypedPath) = "/" THEN all ELSE SubSeq(all, 1, Len(all) - 1)

\* C2: path completion offers exactly join('/', P[len(T):]) for every template P
\* whose methods contain the upper-cased method, with len(T) < len(P) and
\* can_match(T, P), T being the typed segments without the one under the cursor;
\* `GET /a/` and `GET /a/_` both give `_a` from the template `/{i}/_a`.
C2_PathCandidates ==
    Finished("_complete_path_part") =>
        LET T == SegsBeforeCursor
            good == { x \in TemplatesOf : /\ TypedMethod \in Tpl(x).methods
                                          /\ Len(T) < Len(Segs(x))
                                          /\ can_match(T, Segs(x)) }
        IN /\ Range(result.items)
                = { Join(SubSeq(Segs(x), Len(T) + 1, Len(Segs(x)))) : x \in good }
           /\ (/\ specs = RestApiSpec /\ TypedMethod = GET
               /\ TypedPath \in { <<"/","a","/">>, <<"/","a","/","_">> })
                  => <<"_","a">> \in Range(result.items)

C2_Witness ==
    /\ Finished("_complete_path_part")
    /\ TypedPath = <<"/","a","/","_">> /\ TypedMethod = GET
    /\ result.items = << <<"_","a">>, <<"a","/","{","d","}">> >>

\* the path typed before the first "?"
BeforeQuery == SubSeq(TypedPath, 1, Run(TypedPath, 0, Chars \ {"?"}))

C4_AlwaysSequence == pc = "done" => result.kind = "list"

\* what a deciding token gives
Deciding == {"HttpMethod", "FuncName", "BlankLine"}
Decides(t) ==
    CASE t.ttype = "HttpMethod" -> List(<< <<"c","o","n","n","=">>, <<"r","u","n","a","s","=">> >>)
      [] t.ttype = "FuncName" ->
            IF \E f \in NAMES : f.name = t.value /\ f.option_names # <<>>
            THEN LET f == CHOOSE g \in NAMES : g.name = t.value
                 IN List([k \in 1..Len(f.option_names) |-> f.option_names[k] \o <<"=">>])
            ELSE List(<<>>)
      [] t.ttype = "BlankLine" -> List(<<>>)
LastDeciding(toks) ==
    CHOOSE k \in 1..Len(toks) :
        /\ toks[k].ttype \in Deciding
        /\ \A j \in (k + 1)..Len(toks) : toks[j].ttype \notin Deciding

\* C5 as stated: the last token of a deciding kind decides the result of option
\* completion, whatever the other tokens are.
C5_LastDecidingDecides ==
    (Finished("_complete_options") /\ \E k \in 1..Len(args.tokens) :
                                          args.tokens[k].ttype \in Deciding)
        => result = Decides(args.tokens[LastDeciding(args.tokens)])

\* C5, amended: unless the token right before the option position is an Assign
\* (then nothing is offered), the last token of a deciding kind decides the
\* result; tokens before it have no influence.
C5_LastDecidingDecidesUnlessAssign ==
    (Finished("_complete_options") /\ \E k \in 1..Len(args.tokens) :
                                          args.tokens[k].ttype \in Deciding)
        => IF Last(args.tokens).ttype = "Assign"
           THEN result = List(<<>>)
           ELSE result = Decides(args.tokens[LastDeciding(args.tokens)])

\* a function call follows an API call of an earlier statement: the function decides
C5_Witness ==
    /\ Finished("_complete_options")
    /\ Len(args.tokens) = 3
    /\ args.tokens[1].ttype = "HttpMethod" /\ args.tokens[2].ttype = "BlankLine"
    /\ args.tokens[3].ttype = "FuncName"
    /\ result.items = << <<"a","=">>, <<"b","=">> >>

\* C7: with no token under the cursor, a newline between the last token and the
\* cursor gives nothing; otherwise option completion runs on all the tokens.
\* An empty token list gives nothing.
C7_TrailingWhitespace ==
    via = << "get_completions" >> =>
        /\ tokens = <<>> => (pc = "done" /\ result = List(<<>>))
        /\ (tokens # <<>> /\ Cursor > EndOf(Last(tokens))) =>
              IF \E k \in 1..Len(trail) : trail[k] = "\n"
              THEN pc = "done" /\ result = List(<<>>)
              ELSE pc = "_complete_options" /\ args.tokens = tokens

C7_Witness ==
    /\ via = << "get_completions", "_complete_options" >>
    /\ trail = <<" ">> /\ Len(tokens) = MaxTokens /\ args.tokens = tokens
    /\ Last(tokens).ttype = "KeyName"

\* the cursor is in the value of a query parameter: an "=" follows the last
\* "?" or "&" of the typed path
InParamValue ==
    /\ \E k \in 1..Len(TypedPath) : TypedPath[k] = "?"
    /\ \E k \in 1..Len(TypedPath) :
          /\ TypedPath[k] = "="
          /\ \A j \in (k + 1)..Len(TypedPath) : TypedPath[j] # "&"
          /\ \E j \in 1..(k - 1) : TypedPath[j] = "?"

\* C8: nothing is offered in a value position: (a) option completion right after
\* an Assign token, (b) path completion with the cursor in a query-parameter
\* value or on the "=" after a parameter name.
C8_NoValueCompletion ==
    /\ (Finished("_complete_options") /\ args.tokens # <<>>
            /\ Last(args.tokens).ttype = "Assign") => result = List(<<>>)
    /\ (pc = "done" /\ Ran("_complete_path") /\ InParamValue) => result = List(<<>>)

C8_Witness ==
    /\ pc = "done" /\ Ran("_complete_path") /\ InParamValue
    /\ TypedPath = <<"a", "?", "a", "=">>
    /\ specs = RestApiSpec /\ TypedMethod = PUT

\* the text `POST myfunc ` has been completed at its end
PostMyfuncDone ==
    /\ mode = "comp" /\ pc = "done"
    /\ text = POST \o <<" ">> \o myfunc \o <<" ">>

\* C6 as stated: completing at the end of `POST myfunc ` yields a= and b=, the
\* option names of the registered function myfunc.
C6_PostMyfuncOffersFunctionOptions ==
    PostMyfuncDone => result = List(<< <<"a","=">>, <<"b","=">> >>)

\* C6, amended: completing at the end of `POST myfunc ` yields conn= and runas=:
\* POST is the HTTP method and myfunc its path, so the method decides.
C6_PostMyfuncOffersCallOptions ==
    PostMyfuncDone =>
        /\ result = List(<< <<"c","o","n","n","=">>, <<"r","u","n","a","s","=">> >>)
        /\ via = << "get_completions", "_complete_options" >>
        /\ Values(tokens) = << POST, myfunc >>

C6_Witness == PostMyfuncDone /\ Len(result.items) = 2 /\ trail = <<" ">>

\* ------------------------------------------------------------ lexer claims
\* C11: the mode stack is never empty while scanning, root stays at its bottom,
\* and once the path and the payload of an API call have been consumed the stack
\* is exactly [root]; the nested payload lexer's stack is never empty either.
C11_StackNeverEmpty ==
    /\ lx \in {"outer", "inner", "done"} => (stack # <<>> /\ stack[1] = "root")
    /\ lx = "inner" => (istack # <<>> /\ istack[1] = "root")
    /\ (step # <<>> /\ step.lexer = "PeekLexer" /\ step.state = "payload")
           => stack = <<"root">>
    /\ (step # <<>> /\ step.lexer = "PeekLexer" /\ step.state = "root"
           /\ step.to > step.from /\ Last(stack) \in {"path", "command"})
           => Len(stack) = 2

\* an API call was scanned to its end: method, path, payload, back in root
C11_Witness ==
    /\ lx = "done" /\ stack = <<"root">>
    /\ step # <<>> /\ step.lexer = "PeekLexer" /\ step.state = "payload"
    /\ Len(out) >= 3 /\ out[1].ttype = "Keyword"

\* ---- inputs: a "%" line, first or not, with or without leading whitespace
MaxCmd == 3         \* characters after the "%" of a command line
CmdChars == {"a", " ", "\n"}
CmdPrefixes == { <<>>, <<" ">>, <<"\n">>, <<"/", "/", "\n">>, <<" ", "\n", " ">>,
                 <<"G","E","T"," ","a","\n">> }

InitLexCmd ==
    /\ mode = "lex"
    /\ \E h \in CmdPrefixes, t \in SeqsUpTo(CmdChars, MaxCmd) : text = h \o <<"%">> \o t
    /\ pos = 0 /\ stack = <<"root">>
    /\ ipos = 0 /\ istack = <<>> /\ ibase = 0
    /\ lx = "outer" /\ out = <<>> /\ step = <<>>
    /\ ConnIdle /\ MatchIdle /\ CompIdle /\ KeysIdle

SpecLexCmd == InitLexCmd /\ [][NextLex]_vars

\* offset k holds a "%" preceded on its line by whitespace only, and the lexer
\* has not left root before it: no method keyword and no "%" was recognized
PercentLineInRoot(k) ==
    /\ At(text, k) = "%"
    /\ \E b \in 0..k : /\ (b = 0 \/ At(text, b - 1) = "\n")
                        /\ \A j \in b..(k - 1) : At(text, j) \in Space
    /\ \A i \in 1..Len(out) :
          out[i].index < k => out[i].ttype \notin {"Keyword", "Percent"}

\* the tokens after out[i] that are not whitespace
WordsAfter(i) == SelectKind(SubSeq(out, i + 1, Len(out)), {out[j].ttype : j \in 1..Len(out)}
                                                            \ {"Whitespace", "Text"})

\* C12: in root mode a line of optional whitespace then "%" yields a Percent
\* token for the "%", the next word as the command name and the words after it
\* as Literals: with or without leading whitespace, on the first line or not.
C12_PercentLineEntersCommand ==
    lx = "done" =>
        \A k \in 0..(Len(text) - 1) :
            PercentLineInRoot(k) =>
                \E i \in 1..Len(out) :
                    /\ out[i] = Token(k, "Percent", <<"%">>)
                    /\ \A j \in 1..Len(WordsAfter(i)) :
                          WordsAfter(i)[j].ttype
                              = (IF j = 1 THEN "Name.Builtin" ELSE "Literal")

\* C12 where the code does it: a "%" at offset 0 is a Percent token, the word
\* after it the command name, the words after that Literals.
C12_PercentAtStart ==
    (lx = "done" /\ At(text, 0) = "%") =>
        /\ out[1] = Token(0, "Percent", <<"%">>)
        /\ \A j \in 1..Len(WordsAfter(1)) :
              WordsAfter(1)[j].ttype = (IF j = 1 THEN "Name.Builtin" ELSE "Literal")

\* a "%" after leading whitespace was scanned to the end: no Percent token, the
\* "%" and the command name after it came out as Error tokens
C12_Witness ==
    /\ lx = "done" /\ text = <<" ", "%", "a", " ", "a">>
    /\ PercentLineInRoot(1)
    /\ \A i \in 1..Len(out) : out[i].ttype # "Percent"
    /\ \E i \in 1..Len(out) : out[i] = Token(1, "Error", <<"%">>)
    /\ stack = <<"root">>

\* ---- inputs: an API call whose payload opens an object key, an object value
\* or an array and goes on with quotes, backslashes and letters
MaxStr == 4         \* characters after the opening of the payload
StrChars == {"'", "\"", "\\", "a"}
CallHead == <<"g","e","t"," ","a"," ">>
StrayHead == <<"?", " ">> \o CallHead           \* a stray character before the call
PayloadOpenings == { <<"{">>, <<"{", ":">>, <<"[">> }
StringPayloads == { o \o b : o \in PayloadOpenings, b \in SeqsUpTo(StrChars, MaxStr) }

\* ---- inputs: well-formed payloads, built as the JSON grammar builds them
MaxNest == 1        \* containers nested inside the elements of the payload
Quotes == {"'", "\""}
OtherQuote(q) == IF q = "'" THEN "\"" ELSE "'"
Quoted(q, b) == <<q>> \o b \o <<q>>
\* string contents: empty, a letter, a formatting sign, an escaped backslash,
\* an escaped quote, the other quote character
StrBodies(q) == { <<>>, <<"a">>, <<"%">>, <<"\\", "\\">>, <<"\\", q>>, <<OtherQuote(q)>> }
StringLits == UNION { { Quoted(q, b) : b \in StrBodies(q) } : q \in Quotes }
\* one literal of each rule of 'numbers'
NumberLits == { <<"1", ".", "5">>, <<"1", "e", "1">>, <<"0", "7">>, <<"0", "b", "1">>,
                <<"0", "x", "1", "f">>, <<"1", "L">>, <<"1", "0">> }
KeyLits == { <<"\"", "a", "\"">>, <<"'", "a", "'">> }
Objects(V) == { <<"{", "}">> }
              \cup { <<"{">> \o k \o <<":">> \o v \o <<"}">> : k \in KeyLits, v \in V }
Arrays(V) == { <<"[", "]">> } \cup { <<"[">> \o v \o <<"]">> : v \in V }
RECURSIVE JsonValues(_)
JsonValues(n) ==
    IF n = 0 THEN StringLits \cup NumberLits \cup ConstWords
    ELSE JsonValues(n - 1) \cup Objects(JsonValues(n - 1)) \cup Arrays(JsonValues(n - 1))
\* two members, two elements
Pairs(V) == { <<"{", "\"", "a", "\"", ":">> \o v \o <<",", "\"", "a", "\"", ":", "1", "}">> : v \in V }
            \cup { <<"[">> \o v \o <<",", "1", "]">> : v \in V }
WellFormedPayloads ==
    Objects(JsonValues(MaxNest)) \cup Arrays(JsonValues(MaxNest)) \cup Pairs(JsonValues(0))

InitPayload ==
    /\ mode = "lex"
    /\ \/ \E p \in StringPayloads : text = CallHead \o p
       \/ \E p \in WellFormedPayloads : text = CallHead \o p
       \/ \E p \in { <<>>, <<"{", "}">> } : text = StrayHead \o p
    /\ pos = 0 /\ stack = <<"root">>
    /\ ipos = 0 /\ istack = <<>> /\ ibase = 0
    /\ lx = "outer" /\ out = <<>> /\ step = <<>>
    /\ ConnIdle /\ MatchIdle /\ CompIdle /\ KeysIdle

SpecPayload == InitPayload /\ [][NextLex]_vars

\* the string modes, the quote that opens each and the mode it is opened from
StringStates == {"dqs", "sqs", "dqs-key", "sqs-key"}
Opener(state) == IF state \in {"sqs", "sqs-key"} THEN "'" ELSE "\""
OpenedFrom(state) == IF state \in {"dqs-key", "sqs-key"} THEN {"dict-key"}
                     ELSE {"dict-value", "array-values"}

\* the character at offset k of the payload follows an even number of backslashes
Unescaped(k) == Run(Reverse(SubSeq(Region, 1, k)), 0, {"\\"}) % 2 = 0

\* PayloadLexer's last step consumed one unescaped quote character inside a string
QuoteStep ==
    /\ step # <<>> /\ step.lexer = "PayloadLexer" /\ step.state \in StringStates
    /\ step.to = step.from + 1
    /\ At(Region, step.from) \in {"'", "\""}
    /\ Unescaped(step.from)

\* C13: inside a string of the payload, the quote character that opened it closes
\* it and puts the lexer back in the mode the string was opened from; the other
\* quote character is content and leaves the lexer in the string. This for
\* single- and double-quoted values and keys.
C13_SameQuoteCloses ==
    QuoteStep =>
        IF At(Region, step.from) = Opener(step.state)
        THEN Last(istack) \in OpenedFrom(step.state)
        ELSE Last(istack) = step.state

\* C13 where the code does it: double-quoted values, and keys of both styles
C13_SameQuoteClosesButSingleValues ==
    (QuoteStep /\ step.state # "sqs") =>
        IF At(Region, step.from) = Opener(step.state)
        THEN Last(istack) \in OpenedFrom(step.state)
        ELSE Last(istack) = step.state

\* the value 'a' was scanned to the end and its closing quote left the lexer in
\* the string
C13_Witness ==
    /\ lx = "inner" /\ text = CallHead \o <<"{", ":", "'", "a", "'">>
    /\ ipos = Len(Region)
    /\ QuoteStep /\ step.state = "sqs" /\ step.from = 5
    /\ Last(istack) = "sqs"

\* the payload of the call, when the input is CallHead and a payload
Payload == SubSeq(text, Len(CallHead) + 1, Len(text))
IsCall == Len(text) >= Len(CallHead) /\ SubSeq(text, 1, Len(CallHead)) = CallHead
NoErrorToken == \A i \in 1..Len(out) : out[i].ttype # "Error"

\* C14: a well-formed object or array of objects, arrays, strings of both quote
\* styles (escapes and any printable character inside), true/false/null and
\* numeric literals is tokenized without an Error token.
C14_WellFormedNoError ==
    (IsCall /\ Payload \in WellFormedPayloads) => NoErrorToken

\* a value opened by a single quote: "'" right after ":", "[" or ","
SingleQuotedValue(p) ==
    \E k \in 1..(Len(p) - 1) : p[k + 1] = "'" /\ p[k] \in {":", "[", ","}

\* C14 where the code does it: a well-formed object without a formatting sign
\* and without a single-quoted value gives no Error token.
C14_ObjectNoErrorButPercent ==
    (/\ IsCall /\ Payload \in WellFormedPayloads
     /\ Payload[1] = "{"
     /\ \A k \in 1..Len(Payload) : Payload[k] # "%"
     /\ ~SingleQuotedValue(Payload)) => NoErrorToken

\* the payload {"a":"%"} was scanned to the end: its "%" is an Error token
C14_Witness ==
    /\ lx = "done" /\ IsCall
    /\ Payload = <<"{", "\"", "a", "\"", ":", "\"", "%", "\"", "}">>
    /\ Payload \in WellFormedPayloads
    /\ \E i \in 1..Len(out) : out[i] = Token(Len(CallHead) + 6, "Error", <<"%">>)
    /\ Cardinality({i \in 1..Len(out) : out[i].ttype = "Error"}) = 1

\* ------------------------------------------------------------ process_tokens
\* the maximal runs of Error tokens of a token list, as pairs of positions
ErrorRuns(toks) ==
    { r \in (1..Len(toks)) \X (1..Len(toks)) :
        /\ r[1] <= r[2]
        /\ \A k \in r[1]..r[2] : toks[k].ttype = "Error"
        /\ (r[1] = 1 \/ toks[r[1] - 1].ttype # "Error")
        /\ (r[2] = Len(toks) \/ toks[r[2] + 1].ttype # "Error") }

\* the lexer's tokens and process_tokens of them, once the text is lexed
Lexed == out
Processed == process_tokens(out)

\* C15: process_tokens turns every maximal run of adjacent Error tokens into one
\* Error token starting where the run starts and spanning the run, and keeps the
\* other tokens; applying it twice changes nothing more, the output is never
\* longer than the input and never holds two adjacent Error tokens.
C15_ProcessTokensMerges ==
    lx = "done" =>
        /\ process_tokens(Processed) = Processed
        /\ Len(Processed) <= Len(Lexed)
        /\ \A i \in 1..(Len(Processed) - 1) :
              ~(Processed[i].ttype = "Error" /\ Processed[i + 1].ttype = "Error")
        /\ SelectKind(Processed, {"Error"})
              = [n \in 1..Cardinality(ErrorRuns(Lexed)) |->
                   LET r == CHOOSE x \in ErrorRuns(Lexed) :
                              Cardinality({y \in ErrorRuns(Lexed) : y[1] < x[1]}) = n - 1
                   IN Token(Lexed[r[1]].index, "Error",
                            SubSeq(text, Lexed[r[1]].index + 1, EndOf(Lexed[r[2]])))]
        /\ SelectKind(Processed, {Lexed[i].ttype : i \in 1..Len(Lexed)} \ {"Error"})
              = SelectKind(Lexed, {Lexed[i].ttype : i \in 1..Len(Lexed)} \ {"Error"})

\* the text a?= gave three Error tokens and the completer got one spanning them
C15_Witness ==
    /\ mode = "comp" /\ text = <<"a", "?", "=">>
    /\ Len(out) = 3 /\ \A i \in 1..3 : out[i].ttype = "Error"
    /\ tokens = << Token(0, "Error", <<"a", "?", "=">>) >>

\* ------------------------------------------------------- load_rest_api_spec
\* a file of the spec directory: its name in two parts, and what json.load gives
File(stem, ext, json) == [stem |-> stem, ext |-> ext, json |-> json]

\* the bundled directory: the common definitions, two endpoints, a stray file
BundledFiles ==
    { File("_common", ".json", << [name |-> "documentation", paths |-> <<>>, params |-> {}] >>),
      File("search", ".json", << RestApiSpec[1] >>),
      File("index", ".json", << RestApiSpec[3] >>),
      File("README", ".md", <<>>) }

MissingDir == [exists |-> FALSE, files |-> {}]
BundledDir == [exists |-> TRUE, files |-> BundledFiles]
SpecDirs == { MissingDir, BundledDir }

\* os.listdir(spec_dir): the files in any order
listdir(dir) ==
    { l \in [1..Cardinality(dir.files) -> dir.files] :
         \A i, j \in DOMAIN l : l[i] = l[j] => i = j }

\* specs.update(mapping): a key already there keeps its place and takes the new value
RECURSIVE update(_, _)
update(sp, mapping) ==
    IF mapping = <<>> THEN sp
    ELSE LET e == Head(mapping)
         IN update(IF \E i \in 1..Len(sp) : sp[i].name = e.name
                   THEN [i \in 1..Len(sp) |-> IF sp[i].name = e.name THEN e ELSE sp[i]]
                   ELSE Append(sp, e),
                   Tail(mapping))

\* the for loop over spec_files
RECURSIVE load_files(_, _)
load_files(sp, listing) ==
    IF listing = <<>> THEN sp
    ELSE LET f == Head(listing)
         IN IF f.ext # ".json" \/ f.stem = "_common"
            THEN load_files(sp, Tail(listing))
            ELSE load_files(update(sp, f.json), Tail(listing))

\* load_rest_api_spec with a bundled default for a missing directory
load_rest_api_spec_default(dir, listing) ==
    IF ~dir.exists THEN RestApiSpec ELSE load_files(<<>>, listing)

\* load_rest_api_spec: {} with a warning when the directory does not exist
load_rest_api_spec(dir, listing) ==
    IF ~dir.exists THEN EmptySpec ELSE load_files(<<>>, listing)

\* PeekCompleter.__init__: self.specs = load_rest_api_spec()
PeekCompleterInit ==
    /\ mode = "comp" /\ pc = "__init__"
    /\ \E listing \in listdir(args) : specs' = load_rest_api_spec(args, listing)
    /\ pc' = "get_completions"
    /\ UNCHANGED <<mode, tokens, trail, args, result, via>>
    /\ UNCHANGED connVars /\ UNCHANGED keyVars /\ UNCHANGED matchVars /\ UNCHANGED lexVars

\* ---- inputs: a completer built over a spec directory, then asked to complete
LoadTokenChoices ==
    { Item("HttpMethod", POST), Item("FuncName", myfunc), Item("KeyName", <<"a">>),
      Item("Assign", <<"=">>) }
LoadPathChars == {"/", "a", "?"}

InitLoad ==
    /\ mode = "comp"
    /\ \/ /\ \E items \in SeqsUpTo(LoadTokenChoices, MaxTokens) :
                tokens = Layout(items, 0, FALSE)
          /\ trail \in { <<>>, <<" ">> }
       \/ /\ \E m \in Methods, path \in SeqsUpTo(LoadPathChars, MaxPath) \ {<<>>} :
                tokens = Layout(<< Item("HttpMethod", m), Item("Literal", path) >>, 0, FALSE)
          /\ trail = <<>>
    /\ specs = <<>> /\ args \in SpecDirs
    /\ pc = "__init__" /\ result = <<>> /\ via = <<>>
    /\ ConnIdle /\ MatchIdle /\ LexIdle /\ KeysIdle

NextLoad ==
    \/ PeekCompleterInit
    \/ NextComp

SpecLoad == InitLoad /\ [][NextLoad]_vars

\* C16: a missing spec directory loads as the empty mapping, and with the empty
\* mapping path completion and parameter-name completion offer nothing whatever
\* the input, while names and options are completed as ever.
C16_MissingDirEmptySpec ==
    /\ (pc = "get_completions" /\ args = MissingDir) => specs = EmptySpec
    /\ (specs = EmptySpec /\ pc = "done") =>
          /\ (Ran("_complete_path_part") \/ Ran("_complete_query_param_name"))
                => result = List(<<>>)
          /\ (via = << "get_completions" >> /\ FoundToken # 0
                 /\ tokens[FoundToken].ttype \in {"HttpMethod", "FuncName"})
                => result = List(<< GET, POST, PUT, DELETE >> \o FUNC_NAME_WORDS)
          /\ (Ran("_complete_options") /\ args.tokens # <<>>
                 /\ Last(args.tokens).ttype # "Assign"
                 /\ \E k \in 1..Len(args.tokens) : args.tokens[k].ttype \in Deciding)
                => result = Decides(args.tokens[LastDeciding(args.tokens)])

\* built over a missing directory (the only one of SpecDirs that loads as the
\* empty mapping), the completer offered nothing for PUT /a/
C16_Witness ==
    /\ Finished("_complete_path_part") /\ specs = EmptySpec
    /\ TypedMethod = PUT /\ TypedPath = <<"/", "a", "/">>
    /\ result = List(<<>>)

\* ------------------------------------------------------------- lexer steps
\* the last step was taken with no rule of its mode matching
NoMatchStep ==
    /\ step # <<>>
    /\ IF step.lexer = "PayloadLexer"
       THEN FirstMatch(PayloadLexerTokens(step.state), Region, step.from) = 0
       ELSE FirstMatch(PeekLexerTokens(step.state), text, step.from) = 0

\* the input offset the last step started at, and the character there
StepOffset == IF step.lexer = "PayloadLexer" THEN ibase + step.from ELSE step.from
StepChar == At(text, StepOffset)

EmptyPayloadStep ==
    /\ step.lexer = "PeekLexer" /\ step.state = "payload"
    /\ step.from = Len(text) /\ step.to = Len(text)
    /\ stack = <<"root">>

C20_PathCandidatesDistinct ==
    Finished("_complete_path_part") =>
        Cardinality(Range(result.items)) = Len(result.items)

\* PUT /a/ : the templates of index and create both leave "a", offered twice
C20_Witness ==
    /\ Finished("_complete_path_part") /\ specs = RestApiSpec
    /\ TypedMethod = PUT /\ TypedPath = <<"/", "a", "/">>
    /\ result.items = << <<"a">>, <<"_", "a">>, <<"a">> >>

\* ======================================================= connection manager
\* The native functions connect, connection and session, as the tests drive
\* them (tests/test_natives.py); indices are 0-based as in the listings.
MaxConns == 3       \* connections the list holds at most
MaxOps == 4         \* native calls in a run

Client(id, name) == [id |-> id, name |-> name]
Str(lines) == [kind |-> "str", items |-> lines]

\* str(es_client_manager): one line per connection, "*" on the current one
Listing(cl, cur) ==
    [k \in 1..Len(cl) |-> [mark |-> IF k - 1 = cur THEN "*" ELSE " ",
                           index |-> k - 1, name |-> cl[k].name]]

\* an id no connection of the list or of the saved session carries
FreshId ==
    LET used == {clients[k].id : k \in 1..Len(clients)}
                \cup (IF saved_session = <<>> THEN {}
                      ELSE {saved_session.clients[k].id : k \in 1..Len(saved_session.clients)})
    IN CHOOSE i \in 0..(2 * MaxConns) : i \notin used

RemoveAt(cl, x) == SubSeq(cl, 1, x) \o SubSeq(cl, x + 2, Len(cl))
InsertAt(cl, x, c) == SubSeq(cl, 1, x) \o << c >> \o SubSeq(cl, x + 1, Len(cl))

\* connect adding the connection before its test request is made
connect_add_first(cl, cur, c, test, fails) ==
    [clients |-> Append(cl, c), index_current |-> Len(cl),
     ret |-> IF test /\ fails THEN None ELSE Str(Listing(Append(cl, c), Len(cl))),
     displayed |-> test /\ fails]

\* connect: build the client; with test=True make the test request, and when it
\* raises hand the error to display.error and return None; else add the client,
\* which becomes current, and return the listing
connect(cl, cur, c, test, fails) ==
    IF test /\ fails
    THEN [clients |-> cl, index_current |-> cur, ret |-> None, displayed |-> TRUE]
    ELSE [clients |-> Append(cl, c), index_current |-> Len(cl),
          ret |-> Str(Listing(Append(cl, c), Len(cl))), displayed |-> FALSE]

\* remove leaving the index of the current connection as it was
remove_client_same_index(cl, cur, x, fallback) ==
    [clients |-> RemoveAt(cl, x), index_current |-> IF x = cur THEN fallback ELSE cur]

\* connection remove=x: the current connection stays current, its index moves down
\* when x was before it; removing the current one makes another one current
remove_client(cl, cur, x, fallback) ==
    [clients |-> RemoveAt(cl, x),
     index_current |-> IF x < cur THEN cur - 1 ELSE IF x = cur THEN fallback ELSE cur]

\* connection keep=x: only connection x is left, and is current
keep_client(cl, x) == [clients |-> << cl[x + 1] >>, index_current |-> 0]

\* connection move=x: the current connection is taken out and put at index x
move_current_to(cl, cur, x) ==
    IF x = cur THEN [clients |-> cl, index_current |-> cur]
    ELSE [clients |-> InsertAt(RemoveAt(cl, cur), x, cl[cur + 1]), index_current |-> x]

\* connection rename=n: the current connection takes the name
rename_current(cl, cur, n) == [k \in 1..Len(cl) |-> IF k - 1 = cur THEN Client(cl[k].id, n) ELSE cl[k]]

\* connection "name": the index of the first connection of that name
index_of_name(cl, n) ==
    (CHOOSE k \in 1..Len(cl) : cl[k].name = n /\ \A j \in 1..(k - 1) : cl[j].name # n) - 1

\* one native call is made and has returned
Native(op, arg, cl, cur, ret, displayed) ==
    /\ mode = "natives" /\ native_ops < MaxOps
    /\ clients' = cl /\ index_current' = cur /\ native_ret' = ret
    /\ native_last' = [op |-> op, arg |-> arg, clients |-> clients,
                       index_current |-> index_current, displayed |-> displayed]
    /\ native_ops' = native_ops + 1
    /\ UNCHANGED mode
    /\ UNCHANGED matchVars /\ UNCHANGED compVars /\ UNCHANGED lexVars
    /\ UNCHANGED keyVars

Connect ==
    /\ Len(clients) < MaxConns
    /\ \E test \in BOOLEAN, fails \in BOOLEAN :
          LET r == connect(clients, index_current, Client(FreshId, "bar"), test, fails)
          IN /\ Native("connect", [test |-> test, fails |-> fails],
                       r.clients, r.index_current, r.ret, r.displayed)
             /\ UNCHANGED saved_session

\* connection x, x an index or a name
Select ==
    /\ \/ \E x \in 0..(Len(clients) - 1) :
             Native("select", [index |-> x], clients, x, Str(Listing(clients, x)), FALSE)
       \/ \E n \in {clients[k].name : k \in 1..Len(clients)} :
             Native("select", [name |-> n], clients, index_of_name(clients, n),
                    Str(Listing(clients, index_of_name(clients, n))), FALSE)
    /\ UNCHANGED saved_session

Rename ==
    /\ Native("rename", "baz", rename_current(clients, index_current, "baz"), index_current,
              Str(Listing(rename_current(clients, index_current, "baz"), index_current)), FALSE)
    /\ UNCHANGED saved_session

\* the last connection is never removed here: the list stays non-empty
Remove ==
    /\ Len(clients) > 1
    /\ \E x \in 0..(Len(clients) - 1), fallback \in 0..(Len(clients) - 2) :
          LET r == remove_client(clients, index_current, x, fallback)
          IN Native("remove", x, r.clients, r.index_current,
                    Str(Listing(r.clients, r.index_current)), FALSE)
    /\ UNCHANGED saved_session

Keep ==
    /\ \E x \in 0..(Len(clients) - 1) :
          LET r == keep_client(clients, x)
          IN Native("keep", x, r.clients, r.index_current,
                    Str(Listing(r.clients, r.index_current)), FALSE)
    /\ UNCHANGED saved_session

Move ==
    /\ \E x \in 0..(Len(clients) - 1) :
          LET r == move_current_to(clients, index_current, x)
          IN Native("move", x, r.clients, r.index_current,
                    Str(Listing(r.clients, r.index_current)), FALSE)
    /\ UNCHANGED saved_session

SessionSave ==
    /\ Native("save", "__default__", clients, index_current, Str(<<>>), FALSE)
    /\ saved_session' = [clients |-> clients, index_current |-> index_current]

SessionLoad ==
    /\ saved_session # <<>>
    /\ Native("load", "__default__", saved_session.clients, saved_session.index_current,
              Str(Listing(saved_session.clients, saved_session.index_current)), FALSE)
    /\ UNCHANGED saved_session

\* PeekApp starts with the connection of its command-line options, current
InitNatives ==
    /\ mode = "natives"
    /\ clients = << Client(0, "foo") >> /\ index_current = 0
    /\ saved_session = <<>> /\ native_ret = <<>> /\ native_last = <<>> /\ native_ops = 0
    /\ MatchIdle /\ CompIdle /\ LexIdle /\ KeysIdle

NextNatives ==
    \/ Connect
    \/ Select
    \/ Rename
    \/ Remove
    \/ Keep
    \/ Move
    \/ SessionSave
    \/ SessionLoad

SpecNatives == InitNatives /\ [][NextNatives]_vars

\* ------------------------------------------------------- connection claims
Did(op) == native_last # <<>> /\ native_last.op = op
\* the connection that was current before the last call, and the one that is now
CurrentBefore == native_last.clients[native_last.index_current + 1]
CurrentNow == clients[index_current + 1]
Marked == {k \in 1..Len(clients) : Listing(clients, index_current)[k].mark = "*"}

\* C17: a connect with test=True whose test request fails returns nothing, hands
\* the error to the display, and leaves the connection list and the current
\* connection as they were before the call.
C17_FailedTestAddsNothing ==
    (Did("connect") /\ native_last.arg.test /\ native_last.arg.fails) =>
        /\ native_ret = None
        /\ native_last.displayed
        /\ clients = native_last.clients
        /\ index_current = native_last.index_current

\* two connections, the first one current: a tested connect failed and is back
C17_Witness ==
    /\ Did("connect") /\ native_last.arg.test /\ native_last.arg.fails
    /\ Len(clients) = 2 /\ index_current = 0 /\ native_ret = None

MaxDepthTail == 4   \* characters after the opening brace of the payload
NestChars == {"{", "}", "[", "]", ":", ",", "\"", "\n"}
NestPayloads == { <<"{">> \o t : t \in SeqsUpTo(NestChars, MaxDepthTail) }

InitNest ==
    /\ mode = "lex"
    /\ \/ \E p \in NestPayloads : text = CallHead \o p
       \/ \E p \in WellFormedPayloads : text = CallHead \o p
       \/ \E p \in { <<>>, <<"{", "}">> } : text = StrayHead \o p
    /\ pos = 0 /\ stack = <<"root">>
    /\ ipos = 0 /\ istack = <<>> /\ ibase = 0
    /\ lx = "outer" /\ out = <<>> /\ step = <<>>
    /\ ConnIdle /\ MatchIdle /\ CompIdle /\ KeysIdle

SpecNest == InitNest /\ [][NextLex]_vars

\* the tokens of the given types yielded so far
CountOf(kinds) == Cardinality({ i \in 1..Len(out) : out[i].ttype \in kinds })
Opened == CountOf({"CurlyLeft", "BracketLeft"})
Closed == CountOf({"CurlyRight", "BracketRight"})
\* PayloadLexer has started; after it has ended istack is the stack it ended with
PayloadScanned == istack # <<>>
PayloadEnded == lx = "done" /\ PayloadScanned
InString == Last(istack) \in StringStates
\* the stack without the string mode on top of it
Containers == IF InString THEN SubSeq(istack, 1, Len(istack) - 1) ELSE istack
\* PayloadLexer's last step consumed the one character c in mode st
SeparatorStep(st, c) ==
    /\ step # <<>> /\ step.lexer = "PayloadLexer" /\ step.state = st
    /\ step.to = step.from + 1 /\ At(Region, step.from) = c
    /\ lx = "inner"
\* an object whose braces balance: a well-formed payload that opens with "{"
BalancedObject == IsCall /\ Payload \in WellFormedPayloads /\ Payload[1] = "{"

\* the depth of the container modes is one more than the openings not yet closed
DepthTracksTokens == Len(Containers) = 1 + Opened - Closed
\* ":" and "," swap dict-key and dict-value, "," stays in array-values
SeparatorsSwap ==
    /\ SeparatorStep("dict-key", ":") => Last(istack) = "dict-value"
    /\ SeparatorStep("dict-value", ",") => Last(istack) = "dict-key"
    /\ SeparatorStep("array-values", ",") => Last(istack) = "array-values"

\* C22: in the payload, for input without Error tokens, the stack depth tracks
\* nesting: "{" and "[" add one region, the matching "}" and "]" remove it, ":"
\* and "," only swap dict-key and dict-value at the same depth; so after a
\* balanced object the stack is what it was before its opening brace, and an
\* unterminated object or array leaves extra regions on the stack at the end.
C22_DepthTracksNesting ==
    (PayloadScanned /\ NoErrorToken) =>
        /\ DepthTracksTokens
        /\ SeparatorsSwap
        /\ (PayloadEnded /\ BalancedObject) => istack = <<"root">>
        /\ (PayloadEnded /\ Opened > Closed) => Len(istack) > 1

\* a newline that no rule matched: RegexLexer yields it as Text and resets the stack
NewlineReset == \E i \in 1..Len(out) : out[i].ttype = "Text"

\* C22 where the code does it: without a newline inside a string and without a
\* single-quoted value, the depth tracks the brace and bracket tokens, the
\* separators swap, a balanced object ends in root and an unterminated one
\* leaves regions on the stack.
C22_DepthTracksButNewlineAndSingle ==
    (PayloadScanned /\ NoErrorToken /\ ~NewlineReset) =>
        /\ DepthTracksTokens
        /\ SeparatorsSwap
        /\ (PayloadEnded /\ BalancedObject /\ ~SingleQuotedValue(Payload))
              => istack = <<"root">>
        /\ (PayloadEnded /\ Opened > Closed) => Len(istack) > 1

\* the balanced object {"a":'a'} was scanned to the end without an Error token
\* and the lexer is left inside the value, two regions above root
C22_Witness ==
    /\ PayloadEnded /\ NoErrorToken /\ BalancedObject
    /\ Payload = <<"{", "\"", "a", "\"", ":", "'", "a", "'", "}">>
    /\ Opened = 1 /\ Closed = 0
    /\ istack = <<"root", "dict-value", "sqs">>

\* ============================================================ key bindings
\* ------------------------------------------------------------ str methods
lstrip(s) == SubSeq(s, Run(s, 0, Space) + 1, Len(s))
rstrip(s) == SubSeq(s, 1, Len(s) - Run(Reverse(s), 0, Space))
strip(s) == rstrip(lstrip(s))

\* s.rfind(sub): the highest offset sub occurs at, -1 when it does not occur
Occurs(s, sub, k) == k + Len(sub) <= Len(s) /\ SubSeq(s, k + 1, k + Len(sub)) = sub
rfind(s, sub) ==
    IF \E k \in 0..Len(s) : Occurs(s, sub, k)
    THEN CHOOSE k \in 0..Len(s) :
            Occurs(s, sub, k) /\ \A j \in (k + 1)..Len(s) : ~Occurs(s, sub, j)
    ELSE 0 - 1

SPECIAL_LEADING_CHAR == "%"

\* the condition with the test for the leading "%" left out
buffer_should_be_handled_no_special(doc_text, sep) ==
    IF strip(doc_text) = <<>> THEN TRUE
    ELSE LET last_linesep_position == rfind(doc_text, sep)
         IN /\ last_linesep_position # 0 - 1
            /\ strip(SubSeq(doc_text, last_linesep_position + 1, Len(doc_text))) = <<>>

\* cond() of buffer_should_be_handled, for the text of the default buffer
buffer_should_be_handled(doc_text, sep) ==
    IF strip(doc_text) = <<>> THEN TRUE
    ELSE IF startswith(lstrip(doc_text), SPECIAL_LEADING_CHAR) THEN TRUE
    ELSE LET last_linesep_position == rfind(doc_text, sep)
         IN /\ last_linesep_position # 0 - 1
            /\ strip(SubSeq(doc_text, last_linesep_position + 1, Len(doc_text))) = <<>>

\* Buffer.newline(): a line break and the leading whitespace of the current line
CurrentLine(s) == SubSeq(s, rfind(s, <<"\n">>) + 2, Len(s))
newline(s) ==
    s \o <<"\n">> \o SubSeq(CurrentLine(s), 1, Len(CurrentLine(s)) - Len(lstrip(CurrentLine(s))))

\* ------------------------------------------------- parser and formatting
\* s.split("\n")
RECURSIVE splitlines(_)
splitlines(s) ==
    LET n == Run(s, 0, Chars \ {"\n"})
    IN IF n = Len(s) THEN << s >>
       ELSE << SubSeq(s, 1, n) >> \o splitlines(SubSeq(s, n + 2, Len(s)))

\* a statement: the line it starts on (its first word and, for an API call, the
\* path) and the text up to the statement boundary
Statement(kind, head, path, payload) ==
    [kind |-> kind, head |-> head, path |-> path, payload |-> payload]
PeekSyntaxError == [raised |-> TRUE, value |-> <<>>]
Returns(v) == [raised |-> FALSE, value |-> v]

\* statement boundaries: a blank line, or an HTTP method or "%" at column 0
BlankLine(l) == strip(l) = <<>>
AtColumn0(l) == MatchWords(l, 0, HttpWords) # NoMatch \/ startswith(l, "%")
\* the last line of the statement that starts on line i
LastLineOf(lines, i) ==
    CHOOSE j \in i..Len(lines) :
        /\ \A k \in (i + 1)..j : ~BlankLine(lines[k]) /\ ~AtColumn0(lines[k])
        /\ j = Len(lines) \/ BlankLine(lines[j + 1]) \/ AtColumn0(lines[j + 1])
\* lines i..j joined again, each with its line break
RECURSIVE TextOf(_, _, _)
TextOf(lines, i, j) ==
    IF i > j THEN <<>> ELSE lines[i] \o <<"\n">> \o TextOf(lines, i + 1, j)

\* the statement that starts on line i and ends on line j: an API call needs a
\* path after its method, a function call starts with "%" or a bare name
StatementAt(lines, i, j) ==
    LET l == lstrip(lines[i])
        m == MatchWords(l, 0, HttpWords)
        rest == lstrip(SubSeq(l, m + 1, Len(l)))
        n == Run(rest, 0, NonSpace)
        w == Run(l, 0, NonSpace)
    IN IF m # NoMatch
       THEN (IF n = 0 THEN PeekSyntaxError
             ELSE Returns(Statement("ApiCall", SubSeq(l, 1, m), SubSeq(rest, 1, n),
                                    SubSeq(rest, n + 1, Len(rest)) \o <<"\n">>
                                    \o TextOf(lines, i + 1, j))))
       ELSE IF l[1] = "%" \/ l[1] \in Letters
       THEN Returns(Statement("FuncCall", SubSeq(l, 1, w), <<>>,
                              SubSeq(l, w + 1, Len(l)) \o <<"\n">>
                              \o TextOf(lines, i + 1, j)))
       ELSE PeekSyntaxError

RECURSIVE ParseLines(_, _)
ParseLines(lines, i) ==
    IF i > Len(lines) THEN Returns(<<>>)
    ELSE IF BlankLine(lines[i]) THEN ParseLines(lines, i + 1)
    ELSE LET j == LastLineOf(lines, i)
             stmt == StatementAt(lines, i, j)
             more == ParseLines(lines, j + 1)
         IN IF stmt.raised \/ more.raised THEN PeekSyntaxError
            ELSE Returns(<< stmt.value >> \o more.value)

\* repl.parser.parse(text): the statements, or PeekSyntaxError
parse(s) == ParseLines(splitlines(s), 1)

\* the payload without its whitespace (the payloads here hold no strings)
Significant(payload) == SelectSeq(payload, LAMBDA c : c \notin Space)
\* braces nest: the depth never drops below zero and ends at zero
RECURSIVE Depths(_, _)
Depths(sig, d) ==
    IF sig = <<>> THEN << d >>
    ELSE << d >> \o Depths(Tail(sig), IF Head(sig) = "{" THEN d + 1
                                      ELSE IF Head(sig) = "}" THEN d - 1 ELSE d)
WellNested(sig) ==
    /\ \A k \in 1..(Len(sig) + 1) : Depths(sig, 0)[k] >= 0
    /\ Depths(sig, 0)[Len(sig) + 1] = 0

Indent(d) == [k \in 1..(2 * d) |-> " "]
\* one logical element per line, indented by its depth
RECURSIVE Expand(_, _, _)
Expand(sig, k, d) ==
    IF k > Len(sig) THEN <<>>
    ELSE LET c == sig[k]
         IN CASE c = "{" /\ At(sig, k) = "}" -> <<"{", "}">> \o Expand(sig, k + 2, d)
              [] c = "{" /\ At(sig, k) # "}" ->
                    <<"{", "\n">> \o Indent(d + 1) \o Expand(sig, k + 1, d + 1)
              [] c = "}" -> <<"\n">> \o Indent(d - 1) \o <<"}">> \o Expand(sig, k + 1, d - 1)
              [] c = "," -> <<",", "\n">> \o Indent(d) \o Expand(sig, k + 1, d)
              [] c = ":" -> <<":", " ">> \o Expand(sig, k + 1, d)
              [] OTHER -> << c >> \o Expand(sig, k + 1, d)

HeadLine(stmt) ==
    stmt.head \o (IF stmt.path = <<>> THEN <<>> ELSE <<" ">> \o stmt.path)
Rendered(stmt, body) ==
    HeadLine(stmt) \o (IF body = <<>> THEN <<>>
                       ELSE (IF stmt.kind = "ApiCall" THEN <<"\n">> ELSE <<" ">>) \o body)
    \o <<"\n">>

\* stmt.format_pretty() and stmt.format_compact(): the text, or PeekSyntaxError
\* when the payload of an API call does not nest
format_pretty(stmt) ==
    LET sig == Significant(stmt.payload)
    IN IF stmt.kind = "ApiCall" /\ ~WellNested(sig) THEN PeekSyntaxError
       ELSE IF stmt.kind = "ApiCall" THEN Returns(Rendered(stmt, Expand(sig, 1, 0)))
       ELSE Returns(Rendered(stmt, strip(stmt.payload)))
format_compact(stmt) ==
    LET sig == Significant(stmt.payload)
    IN IF stmt.kind = "ApiCall" /\ ~WellNested(sig) THEN PeekSyntaxError
       ELSE IF stmt.kind = "ApiCall" THEN Returns(Rendered(stmt, sig))
       ELSE Returns(Rendered(stmt, strip(stmt.payload)))

\* ------------------------------------------------- key_bindings(repl)
MaxKeys == 2        \* key presses in one prompt
MaxBuf == 3         \* characters typed into the buffer
MaxLines == 3       \* lines of a buffer made of statement lines

\* the loop of the f3 handler: the rendered statements, or PeekSyntaxError from
\* the first statement that cannot be rendered
RECURSIVE FormatAll(_, _)
FormatAll(stmts, pretty) ==
    IF stmts = <<>> THEN Returns(<<>>)
    ELSE LET t == IF ~pretty THEN format_pretty(Head(stmts)) ELSE format_compact(Head(stmts))
             more == FormatAll(Tail(stmts), pretty)
         IN IF t.raised \/ more.raised THEN PeekSyntaxError
            ELSE Returns(<< t.value >> \o more.value)

\* the try block of the f3 handler: the rendered statements, or PeekSyntaxError
Reformatted(txt, pretty) ==
    IF parse(txt).raised THEN PeekSyntaxError ELSE FormatAll(parse(txt).value, pretty)

\* the f3 handler with is_pretty flipped before the statements are rendered
f3_flip_first(txt, pretty) ==
    IF Reformatted(txt, pretty).raised
    THEN [text |-> txt, is_pretty |-> ~pretty]
    ELSE [text |-> Flatten(Reformatted(txt, pretty).value), is_pretty |-> ~pretty]

\* the f3 handler: the buffer text and repl.is_pretty it leaves
f3(txt, pretty) ==
    IF Reformatted(txt, pretty).raised
    THEN [text |-> txt, is_pretty |-> pretty]
    ELSE [text |-> Flatten(Reformatted(txt, pretty).value), is_pretty |-> ~pretty]

\* the prompt is reading keys: the buffer was not handed over yet
Prompting ==
    /\ mode = "keys" /\ Len(key_log) < MaxKeys
    /\ IF key_log = <<>> THEN TRUE ELSE Last(key_log).call # "validate_and_handle"

\* a key was pressed: whether a handler of key_bindings ran, and the call it made
Pressed(key, ran, call) ==
    /\ Prompting
    /\ key_log' = Append(key_log, [key |-> key, ran |-> ran, call |-> call,
                                   text |-> buffer, is_pretty |-> is_pretty])
    /\ UNCHANGED <<mode, completion_selected, searching, linesep>>
    /\ UNCHANGED matchVars /\ UNCHANGED compVars /\ UNCHANGED lexVars
    /\ UNCHANGED connVars

\* 'enter', filter=~(completion_is_selected | is_searching) & buffer_should_be_handled(repl)
Enter ==
    /\ IF ~(completion_selected \/ searching) /\ buffer_should_be_handled(buffer, linesep)
       THEN Pressed("enter", TRUE, "validate_and_handle")
       ELSE Pressed("enter", FALSE, "nothing")
    /\ UNCHANGED <<buffer, is_pretty, exiting>>

\* 'escape', 'enter', filter=~(completion_is_selected | is_searching)
EscapeEnter ==
    /\ IF ~(completion_selected \/ searching)
       THEN Pressed("escape enter", TRUE, "newline") /\ buffer' = newline(buffer)
       ELSE Pressed("escape enter", FALSE, "nothing") /\ buffer' = buffer
    /\ UNCHANGED <<is_pretty, exiting>>

\* 'c-d'
CtrlD ==
    /\ Pressed("c-d", TRUE, "validate_and_handle")
    /\ exiting' = TRUE
    /\ UNCHANGED <<buffer, is_pretty>>

\* 'f3'
F3 ==
    /\ Pressed("f3", TRUE, IF Reformatted(buffer, is_pretty).raised THEN "nothing" ELSE "text=")
    /\ buffer' = f3(buffer, is_pretty).text
    /\ is_pretty' = f3(buffer, is_pretty).is_pretty
    /\ UNCHANGED exiting

\* ---- inputs: buffers typed character by character, with every state of the
\* completion menu and the search; and buffers made of statement lines
KeyChars == {"a", " ", "\n", "\r", "%"}
TypedBuffers == SeqsUpTo(KeyChars, MaxBuf)
                \cup { <<"G","E","T"," ","a">>, <<"G","E","T"," ","a","\n">>,
                       <<"G","E","T"," ","a","\n","{","}","\n"," ">> }
LineSeps == { <<"\n">>, <<"\r", "\n">> }
StatementLines == { <<"G","E","T"," ","a">>, <<"g","e","t">>, <<"{">>, <<"}">>,
                    <<"{","1",":","1",",","1",":","{","}","}">>, <<>>, <<"%","a">> }
JoinLines(ls) == IF ls = <<>> THEN <<>>
                 ELSE SubSeq(TextOf(ls, 1, Len(ls)), 1, Len(TextOf(ls, 1, Len(ls))) - 1)
LineBuffers == { JoinLines(ls) : ls \in SeqsUpTo(StatementLines, MaxLines) }

InitKeys ==
    /\ mode = "keys"
    /\ \/ /\ buffer \in TypedBuffers
          /\ completion_selected \in BOOLEAN /\ searching \in BOOLEAN
          /\ linesep \in LineSeps /\ is_pretty = FALSE
       \/ /\ buffer \in LineBuffers
          /\ completion_selected = FALSE /\ searching = FALSE
          /\ linesep = <<"\n">> /\ is_pretty \in BOOLEAN
    /\ exiting = FALSE /\ key_log = <<>>
    /\ MatchIdle /\ CompIdle /\ LexIdle /\ ConnIdle

NextKeys ==
    \/ Enter
    \/ EscapeEnter
    \/ CtrlD
    \/ F3

SpecKeys == InitKeys /\ [][NextKeys]_vars

\* ------------------------------------------------------ key-binding claims
KeyPressed(key) == key_log # <<>> /\ Last(key_log).key = key
Submitted == Last(key_log).call = "validate_and_handle"
TextBefore == Last(key_log).text
\* the text is blank, starts with "%" after leading whitespace, or has a line
\* separator with nothing but whitespace after it
Blank(s) == \A k \in 1..Len(s) : s[k] \in Space
LeadingPercent(s) == \E k \in 1..Len(s) : s[k] = "%" /\ \A j \in 1..(k - 1) : s[j] \in Space
EmptyLastLine(s, sep) ==
    \E k \in 0..Len(s) :
        /\ Occurs(s, sep, k)
        /\ \A j \in (k + Len(sep) + 1)..Len(s) : s[j] \in Space

\* C23: Enter submits the buffer (validate_and_handle) exactly when no completion
\* is selected, no search is active, and the text is blank, or starts after
\* leading whitespace with "%", or has a line separator followed by whitespace
\* only; a single-line API call without a trailing newline is not submitted.
C23_EnterSubmitsIff ==
    KeyPressed("enter") =>
        /\ Submitted <=>
              /\ ~completion_selected /\ ~searching
              /\ \/ Blank(TextBefore)
                 \/ LeadingPercent(TextBefore)
                 \/ EmptyLastLine(TextBefore, linesep)
        /\ TextBefore = <<"G","E","T"," ","a">> => ~Submitted

\* Enter was pressed on an API call that ends with an empty line and submitted it
C23_Witness ==
    /\ KeyPressed("enter") /\ Submitted
    /\ TextBefore = <<"G","E","T"," ","a","\n","{","}","\n"," ">>
    /\ linesep = <<"\n">>

\* what F3 was pressed on, and the rendering asked for: pretty when is_pretty
\* was false, compact when it was true
PrettyBefore == Last(key_log).is_pretty
RenderedAs(stmt, pretty) == IF ~pretty THEN format_pretty(stmt) ELSE format_compact(stmt)
StatementsBefore == parse(TextBefore).value
CannotReformat ==
    \/ parse(TextBefore).raised
    \/ \E k \in 1..Len(StatementsBefore) :
          RenderedAs(StatementsBefore[k], PrettyBefore).raised
AllRendered ==
    Flatten([k \in 1..Len(StatementsBefore) |->
                RenderedAs(StatementsBefore[k], PrettyBefore).value])
SuccessfulF3(e) == e.key = "f3" /\ e.call = "text="

\* C21: F3 is all-or-nothing: when parsing the buffer or rendering a statement
\* raises PeekSyntaxError, neither the text nor is_pretty changes; otherwise the
\* text becomes the concatenation of every statement rendered pretty (is_pretty
\* was false) or compact (it was true) and is_pretty is flipped; two successful
\* presses in a row restore is_pretty.
C21_ReformatAllOrNothing ==
    KeyPressed("f3") =>
        /\ IF CannotReformat
           THEN buffer = TextBefore /\ is_pretty = PrettyBefore
           ELSE buffer = AllRendered /\ is_pretty = ~PrettyBefore
        /\ SuccessfulF3(Last(key_log)) <=> ~CannotReformat
        /\ (/\ Len(key_log) >= 2
            /\ SuccessfulF3(key_log[Len(key_log) - 1])
            /\ SuccessfulF3(Last(key_log)))
              => is_pretty = key_log[Len(key_log) - 1].is_pretty

\* F3 was pressed on two API calls of which the first can be rendered and the
\* second has an open brace: the text and is_pretty are as before
C21_Witness ==
    /\ KeyPressed("f3") /\ CannotReformat
    /\ TextBefore = <<"G","E","T"," ","a","\n","G","E","T"," ","a","\n","{">>
    /\ ~parse(TextBefore).raised /\ Len(StatementsBefore) = 2
    /\ ~RenderedAs(StatementsBefore[1], PrettyBefore).raised
    /\ buffer = TextBefore /\ is_pretty = PrettyBefore

====
